---- MODULE Spec2Model ----
(***************************************************************************)
(* Automatic presentations (AutStr): deterministic automata over product   *)
(* alphabets, the convolution operators pad / unpad / expand / projection  *)
(* / product, the formula-to-automaton compiler of AutomaticPresentation,  *)
(* the length-lexicographic enumerator and the relational-algebra terms.   *)
(*                                                                         *)
(* A DFA is a record                                                       *)
(*   [states, input_symbols, initial_state, transitions, final_states]     *)
(* as in the automata library the source builds on.  States are natural    *)
(* numbers (state identity is opaque), a k-ary symbol is a k-tuple of base *)
(* symbols, and positions in tuples are 0-based as in the source.          *)
(***************************************************************************)
EXTENDS Integers, Sequences, FiniteSets, Bags, TLC

\* Longest test word fed to a compiled automaton.
MaxWordLen == 3

\* The padding symbol (AutomaticPresentation.padding_symbol, pad/unpad default).
PAD == "*"

\* The element of a singleton; { e(x) : x \in {v} } evaluates v once.
Only(S) == CHOOSE x \in S : TRUE

Max(S) == CHOOSE x \in S : \A y \in S : y <= x
Min(S) == CHOOSE x \in S : \A y \in S : x <= y

\* itertools.product(base_symbols, repeat=n)
Tuples(base, n) == [1..n -> base]

\* padding_symbol * arity : the k-fold padding symbol
PadSym(arity) == [i \in 1..arity |-> PAD]

\* len(list(dfa.input_symbols)[0])
Arity(dfa) == Len(CHOOSE s \in dfa.input_symbols : TRUE)

\* {symbol[0] for symbol in dfa.input_symbols}
BaseSymbols(dfa) == {s[1] : s \in dfa.input_symbols}

\* The state reached from q on word w; -1 when a symbol is outside the alphabet.
RECURSIVE RunFrom(_, _, _)
RunFrom(dfa, q, w) ==
    IF w = <<>> THEN q
    ELSE IF q = -1 \/ Head(w) \notin dfa.input_symbols THEN -1
    ELSE Only({RunFrom(dfa, p, Tail(w)) : p \in {dfa.transitions[q][Head(w)]}})

Accepts(dfa, w) == Only({(RunFrom(d, d.initial_state, w) \in d.final_states) : d \in {dfa}})

\* All words of length at most n over the symbol set S.
RECURSIVE WordsUpTo(_, _)
WordsUpTo(S, n) ==
    IF n = 0 THEN {<<>>}
    ELSE LET shorter == WordsUpTo(S, n - 1)
         IN  shorter \cup {Append(w, a) : w \in {v \in shorter : Len(v) = n - 1}, a \in S}

(***************************************************************************)
(* AutomatonCore: minimisation, intersection, union, complement, emptiness *)
(***************************************************************************)
RECURSIVE ReachFrom(_, _, _)
ReachFrom(dfa, done, todo) ==
    IF todo = {} THEN done
    ELSE Only({ReachFrom(dfa, done \cup todo, next \ (done \cup todo)) :
               next \in {{dfa.transitions[q][a] : q \in todo, a \in dfa.input_symbols}}})

Reachable(dfa) == Only({ReachFrom(d, {}, {d.initial_state}) : d \in {dfa}})

\* Moore partition refinement; cls maps a state to the least state of its class.
Signature(dfa, Q, cls) ==
    [q \in Q |-> <<cls[q], [a \in dfa.input_symbols |-> cls[dfa.transitions[q][a]]]>>]

RECURSIVE Refine(_, _, _)
Refine(dfa, Q, cls) ==
    Only({ Only({ IF new = cls THEN cls ELSE Refine(dfa, Q, new) :
                  new \in {[q \in Q |-> Min({p \in Q : sig[p] = sig[q]})]} }) :
           sig \in {Signature(dfa, Q, cls)} })

\* The quotient of dfa by cls, its classes renamed 0..n-1 by rk.
Quotient(dfa, cls, reps, rk) ==
    [states        |-> {rk[r] : r \in reps},
     input_symbols |-> dfa.input_symbols,
     initial_state |-> rk[cls[dfa.initial_state]],
     transitions   |-> [i \in {rk[r] : r \in reps} |->
                          [a \in dfa.input_symbols |->
                             rk[cls[dfa.transitions[CHOOSE s \in reps : rk[s] = i][a]]]]],
     final_states  |-> {rk[r] : r \in reps \cap dfa.final_states}]

Ranks(reps) == [r \in reps |-> Cardinality({s \in reps : s < r})]

MinifyOn(dfa, Q) ==
    Only({ Only({ Only({ Quotient(dfa, cls, reps, rk) : rk \in {Ranks(reps)} }) :
                  reps \in {{cls[q] : q \in Q}} }) :
           cls \in {Refine(dfa, Q, [q \in Q |->
                      Min({p \in Q : (p \in dfa.final_states) = (q \in dfa.final_states)})])} })

\* DFA.minify / SparseDFA.minimize: drop unreachable states, merge equivalent
\* states, rename the states 0..n-1.
minify(dfa) == Only({ Only({ MinifyOn(d, Q) : Q \in {Reachable(d)} }) : d \in {dfa} })

\* Reachable part of the cross product of A and B (states p * n + q).
RECURSIVE CrossReach(_, _, _, _, _)
CrossReach(A, B, n, done, todo) ==
    IF todo = {} THEN done
    ELSE Only({CrossReach(A, B, n, done \cup todo, next \ (done \cup todo)) :
               next \in {{A.transitions[s \div n][a] * n + B.transitions[s % n][a] :
                            s \in todo, a \in A.input_symbols}}})

\* Whether the pair of a state of A and a state of B is final.
FinalPair(kind, x, y) ==
    CASE kind = "and" -> x /\ y
      [] kind = "or"  -> x \/ y
      [] kind = "xor" -> x # y

CrossOn(A, B, n, Q, kind) ==
    [states        |-> Q,
     input_symbols |-> A.input_symbols,
     initial_state |-> A.initial_state * n + B.initial_state,
     transitions   |-> [s \in Q |-> [a \in A.input_symbols |->
                          A.transitions[s \div n][a] * n + B.transitions[s % n][a]]],
     final_states  |-> {s \in Q : FinalPair(kind, s \div n \in A.final_states, s % n \in B.final_states)}]

CrossProduct(A, B, kind) ==
    Only({ Only({ CrossOn(a, b, Max(b.states) + 1, Q, kind) :
                  Q \in {CrossReach(a, b, Max(b.states) + 1, {},
                                    {a.initial_state * (Max(b.states) + 1) + b.initial_state})} }) :
           a \in {A}, b \in {B} })

\* A.intersection(B)
intersection(A, B) == CrossProduct(A, B, "and")

\* A.union(B)
union(A, B) == CrossProduct(A, B, "or")

\* A.complement()
complement(dfa) ==
    Only({[d EXCEPT !.final_states = d.states \ d.final_states] : d \in {dfa}})

\* A.isempty() / A.is_empty()
isempty(dfa) == Reachable(dfa) \cap dfa.final_states = {}

(***************************************************************************)
(* buildin.automata                                                        *)
(***************************************************************************)
zero == [states |-> {0}, input_symbols |-> {}, initial_state |-> 0,
         transitions |-> [q \in {0} |-> <<>>], final_states |-> {}]

one == [states |-> {0}, input_symbols |-> {}, initial_state |-> 0,
        transitions |-> [q \in {0} |-> <<>>], final_states |-> {0}]

(***************************************************************************)
(* ConvolutionOps                                                          *)
(***************************************************************************)
\* utils.misc.generate_new_elements(M, n): the n least naturals not in M.
RECURSIVE NewFrom(_, _, _)
NewFrom(M, n, i) ==
    IF n = 0 THEN <<>>
    ELSE IF i \notin M THEN <<i>> \o NewFrom(M, n - 1, i + 1)
    ELSE NewFrom(M, n, i + 1)

generate_new_elements(M, n) == NewFrom(M, n, 0)

\* tuple(symbol[i] for i in pos)
Select(symbol, pos) == [j \in 1..Len(pos) |-> symbol[pos[j] + 1]]

\* s[:i] + s[i+1:]
DropAt(s, i) == [j \in 1..(Len(s) - 1) |-> IF j <= i THEN s[j] ELSE s[j + 1]]

\* s[:i] + (a,) + s[i:]
InsertAt(s, i, a) ==
    [j \in 1..(Len(s) + 1) |-> IF j <= i THEN s[j] ELSE IF j = i + 1 THEN a ELSE s[j - 1]]

\* expand reading pos from its end: the relation is laid out on the
\* positions in the opposite order.
expand_reversed(dfa, n, pos) ==
    Only({ minify([states        |-> d.states,
                   input_symbols |-> input_symbols,
                   initial_state |-> d.initial_state,
                   transitions   |-> [x \in d.states |->
                                        [symbol \in input_symbols |->
                                           d.transitions[x][Select(symbol,
                                               [j \in 1..Len(pos) |-> pos[Len(pos) + 1 - j]])]]],
                   final_states  |-> d.final_states]) :
           d \in {dfa}, input_symbols \in {Tuples(BaseSymbols(dfa), n)} })

expand(dfa, n, pos) ==
    Only({ minify([states        |-> d.states,
                   input_symbols |-> input_symbols,
                   initial_state |-> d.initial_state,
                   transitions   |-> [x \in d.states |->
                                        [symbol \in input_symbols |->
                                           d.transitions[x][Select(symbol, pos)]]],
                   final_states  |-> d.final_states]) :
           d \in {dfa}, input_symbols \in {Tuples(BaseSymbols(dfa), n)} })

\* pad with the sinks good and bad and the k-fold padding symbol pads
PadWith(dfa, input_symbols, pads, good, bad) ==
    minify([states        |-> dfa.states \cup {good, bad},
            input_symbols |-> input_symbols,
            initial_state |-> dfa.initial_state,
            transitions   |->
                [q \in dfa.states \cup {good, bad} |->
                   [a \in input_symbols |->
                      IF q = bad THEN bad
                      ELSE IF q = good THEN (IF a = pads THEN good ELSE bad)
                      ELSE IF a = pads
                           THEN (IF q \in dfa.final_states THEN good ELSE bad)
                           ELSE dfa.transitions[q][a]]],
            final_states  |-> dfa.final_states \cup {good}])

\* pad with the union of the two dictionaries taken the other way round:
\* a state's own transition by the padding symbol is kept.
pad_keeping_own(dfa) ==
    Only({ minify([states        |-> d.states \cup {new[1], new[2]},
                   input_symbols |-> Tuples(BaseSymbols(d) \cup {PAD}, Arity(d)),
                   initial_state |-> d.initial_state,
                   transitions   |->
                       [q \in d.states \cup {new[1], new[2]} |->
                          [a \in Tuples(BaseSymbols(d) \cup {PAD}, Arity(d)) |->
                             IF q = new[2] THEN new[2]
                             ELSE IF q = new[1]
                                  THEN (IF a = PadSym(Arity(d)) THEN new[1] ELSE new[2])
                             ELSE IF a \in d.input_symbols THEN d.transitions[q][a]
                             ELSE IF q \in d.final_states THEN new[1] ELSE new[2]]],
                   final_states  |-> d.final_states \cup {new[1]}]) :
           d \in {dfa}, new \in {generate_new_elements(dfa.states, 2)} })

\* pad(dfa, padding_symbol)
pad(dfa) ==
    Only({ PadWith(d, Tuples(BaseSymbols(d) \cup {PAD}, Arity(d)), PadSym(Arity(d)), new[1], new[2]) :
           d \in {dfa}, new \in {generate_new_elements(dfa.states, 2)} })

\* The fixpoint of final_states under predecessors by the padding symbol.
RECURSIVE PadClosure(_, _, _)
PadClosure(dfa, pads, F) ==
    Only({ IF G = F THEN F ELSE PadClosure(dfa, pads, G) :
           G \in {F \cup {q \in dfa.states : dfa.transitions[q][pads] \in F}} })

\* unpad with the new state sink and the k-fold padding symbol pads
UnpadWith(dfa, pads, sink) ==
    minify([states        |-> dfa.states \cup {sink},
            input_symbols |-> dfa.input_symbols,
            initial_state |-> dfa.initial_state,
            transitions   |->
                [q \in dfa.states \cup {sink} |->
                   [a \in dfa.input_symbols |->
                      IF q = sink \/ a = pads THEN sink ELSE dfa.transitions[q][a]]],
            final_states  |-> PadClosure(dfa, pads, dfa.final_states)])

\* unpad without the sink: the final states are closed under the padding
\* symbol, the transitions by it are kept.
unpad_keeping_pads(dfa) ==
    Only({ minify([d EXCEPT !.final_states = PadClosure(d, PadSym(Arity(d)), d.final_states)]) :
           d \in {dfa} })

\* unpad(dfa, padding_symbol, remove_blank=False)
unpad(dfa) ==
    Only({ UnpadWith(d, PadSym(Arity(d)), generate_new_elements(d.states, 1)[1]) : d \in {dfa} })

\* frozenset of states as a number (the subset states are renamed by minify).
RECURSIVE SetCode(_)
SetCode(S) == IF S = {} THEN 0 ELSE LET q == Min(S) IN 2 ^ q + SetCode(S \ {q})

\* The subset reached from a subset state on the trimmed symbol s, the
\* completions a ranging over input_symbols_i.
StateTrans(dfa, i, input_symbols_i, state, s) ==
    {dfa.transitions[q][InsertAt(s, i, a)] : q \in state, a \in input_symbols_i}

\* The worklist loop of projection: every subset state reachable from todo.
RECURSIVE SubsetStates(_, _, _, _, _, _)
SubsetStates(dfa, i, input_symbols, input_symbols_i, done, todo) ==
    IF todo = {} THEN done
    ELSE Only({ SubsetStates(dfa, i, input_symbols, input_symbols_i,
                             done \cup todo, next \ (done \cup todo)) :
                next \in {{StateTrans(dfa, i, input_symbols_i, state, s) :
                             state \in todo, s \in input_symbols}} })

ProjectionOn(dfa, i, input_symbols, input_symbols_i, done) ==
    minify([states        |-> {SetCode(state) : state \in done},
            input_symbols |-> input_symbols,
            initial_state |-> SetCode({dfa.initial_state}),
            transitions   |->
                [c \in {SetCode(state) : state \in done} |->
                   [s \in input_symbols |->
                      SetCode(StateTrans(dfa, i, input_symbols_i,
                                         CHOOSE st \in done : SetCode(st) = c, s))]],
            final_states  |-> {SetCode(state) : state \in {st \in done : st \cap dfa.final_states # {}}}])

\* projection completing the dropped column with one symbol only.
projection_of_one_symbol(dfa, i) ==
    Only({ Only({ ProjectionOn(d, i, input_symbols, input_symbols_i, done) :
                  done \in {SubsetStates(d, i, input_symbols, input_symbols_i, {}, {{d.initial_state}})} }) :
           d \in {dfa},
           input_symbols \in {{DropAt(s, i) : s \in dfa.input_symbols}},
           input_symbols_i \in {{CHOOSE a \in {s[i + 1] : s \in dfa.input_symbols} : TRUE}} })

projection(dfa, i) ==
    Only({ Only({ ProjectionOn(d, i, input_symbols, input_symbols_i, done) :
                  done \in {SubsetStates(d, i, input_symbols, input_symbols_i, {}, {{d.initial_state}})} }) :
           d \in {dfa},
           input_symbols \in {{DropAt(s, i) : s \in dfa.input_symbols}},
           input_symbols_i \in {{s[i + 1] : s \in dfa.input_symbols}} })

RECURSIVE ProductFrom(_, _, _, _)
ProductFrom(dfa, n, i, result) ==
    IF i >= n THEN result
    ELSE Only({ ProductFrom(dfa, n, i + 1, r) :
                r \in {minify(intersection(result, expand(dfa, n, <<i>>)))} })

\* product(dfa, n): the n-fold Cartesian product of L(dfa)
product(dfa, n) ==
    IF n = 0 THEN one ELSE Only({ProductFrom(d, n, 1, expand(d, n, <<0>>)) : d \in {dfa}})

(***************************************************************************)
(* Formula AST (nltk.sem.logic expressions).  A formula is a record        *)
(* [op, name, args, sub]: op is "app" (name = predicate, args = variable   *)
(* names), "and" / "or" (two subformulas), "not" (one), "exists" / "all"   *)
(* (name = bound variable, one subformula).                                *)
(***************************************************************************)
App(R, args)  == [op |-> "app", name |-> R, args |-> args, sub |-> <<>>]
And(l, r)     == [op |-> "and", name |-> "", args |-> <<>>, sub |-> <<l, r>>]
Or(l, r)      == [op |-> "or", name |-> "", args |-> <<>>, sub |-> <<l, r>>]
Not(p)        == [op |-> "not", name |-> "", args |-> <<>>, sub |-> <<p>>]
Exists(v, p)  == [op |-> "exists", name |-> v, args |-> <<>>, sub |-> <<p>>]
ForAll(v, p)  == [op |-> "all", name |-> v, args |-> <<>>, sub |-> <<p>>]

\* Variable names in the order of Python's string sort.
VarNames ==
    <<"x", "x0", "x00", "y", "y0", "y00", "y1", "y2", "z", "z0", "z00", "z1">>

Range(seq) == {seq[i] : i \in 1..Len(seq)}

RECURSIVE free(_)
free(phi) ==
    CASE phi.op = "app" -> Range(phi.args)
      [] phi.op \in {"and", "or"} -> free(phi.sub[1]) \cup free(phi.sub[2])
      [] phi.op = "not" -> free(phi.sub[1])
      [] OTHER -> free(phi.sub[1]) \ {phi.name}

\* utils.logic.get_free_elementary_vars: the sorted list of free variables
get_free_elementary_vars(phi) == SelectSeq(VarNames, LAMBDA v : v \in free(phi))

\* list.index
Index(seq, v) == (CHOOSE i \in 1..Len(seq) : seq[i] = v) - 1

\* [free_vars.index(v) for v in vs]
Positions(free_vars, vs) == [j \in 1..Len(vs) |-> Index(free_vars, vs[j])]

\* Expression.negate().simplify()
negate(phi) == IF phi.op = "not" THEN phi.sub[1] ELSE Not(phi)

(***************************************************************************)
(* FormulaCompiler: AutomaticPresentation._build_automaton.  An exception  *)
(* (KeyError for an unknown relation, the failed assertions and index      *)
(* errors of the convolution operators on 0-ary automata) is the value     *)
(* RAISED, which every caller propagates.                                  *)
(***************************************************************************)
RAISED == [states |-> {}, input_symbols |-> {}, initial_state |-> 0,
           transitions |-> <<>>, final_states |-> {}]

Raised(dfa) == dfa.states = {}

\* expand as called by the compiler: its assertions fail on a 0-ary operand
\* (max(pos) of an empty list) and on an arity mismatch.
expand_checked(dfa, n, pos) ==
    Only({ IF Raised(d) \/ d.input_symbols = {} \/ pos = <<>> THEN RAISED
           ELSE IF Arity(d) # Len(pos) THEN RAISED
           ELSE expand(d, n, pos) : d \in {dfa} })

\* The ExistsExpression branch without its re-padding step: the projection
\* is returned as it is.
projected_only(result) == result

\* pad(unpad(result).minimize()).minimize() of the ExistsExpression branch
repad(result) ==
    Only({ IF Raised(r) \/ r.input_symbols = {} THEN RAISED
           ELSE minify(pad(minify(unpad(r)))) : r \in {result} })

RECURSIVE build_automaton(_, _)

\* AllExpression, the bound variable free in the term: dfa_rec is the
\* automaton of the negated term.
build_all(automata, variable, free_vars, dfa_rec) ==
    IF Raised(dfa_rec) THEN RAISED
    ELSE IF Len(free_vars) > 1
    THEN minify(intersection(
             minify(complement(minify(projection(dfa_rec, Index(free_vars, variable))))),
             product(automata["U"], Len(free_vars) - 1)))
    ELSE IF isempty(dfa_rec) THEN one ELSE zero

\* ExistsExpression: dfa_rec is the automaton of the term.
build_exists(variable, free_vars, dfa_rec) ==
    IF Raised(dfa_rec) THEN RAISED
    ELSE IF variable \in Range(free_vars)
    THEN IF Len(free_vars) > 1
         THEN repad(minify(projection(dfa_rec, Index(free_vars, variable))))
         ELSE IF isempty(dfa_rec) THEN zero ELSE one
    ELSE repad(dfa_rec)

\* AndExpression / OrExpression: both sides expanded to the free variables
\* of phi, then combined.
build_and(dfa_l, dfa_r) ==
    IF Raised(dfa_l) \/ Raised(dfa_r) THEN RAISED ELSE minify(intersection(dfa_l, dfa_r))

build_or(dfa_l, dfa_r) ==
    IF Raised(dfa_l) \/ Raised(dfa_r) THEN RAISED ELSE minify(union(dfa_l, dfa_r))

\* The NegatedExpression branch without the intersection with the domain.
build_not_unrestricted(automata, free_vars, rec) ==
    IF Raised(rec) THEN RAISED ELSE minify(complement(rec))

\* NegatedExpression of a term that is no negation: rec is the term's automaton.
build_not(automata, free_vars, rec) ==
    IF Raised(rec) THEN RAISED
    ELSE minify(intersection(complement(rec), product(automata["U"], Len(free_vars))))

\* The ApplicationExpression branch with dict.get in place of the
\* subscript: a name that is not a key is read as the universe on the first
\* argument.
build_app_defaulting(automata, phi, variables) ==
    IF phi.name \notin DOMAIN automata
    THEN Only({ IF Raised(e) THEN RAISED ELSE minify(e) :
                e \in {expand_checked(automata["U"], Len(variables),
                                      Positions(variables, <<phi.args[1]>>))} })
    ELSE Only({ IF Raised(e) THEN RAISED ELSE minify(e) :
                e \in {expand_checked(automata[phi.name], Len(variables),
                                      Positions(variables, phi.args))} })

\* ApplicationExpression: KeyError when R is bound to nothing.
build_app(automata, phi, variables) ==
    IF phi.name \notin DOMAIN automata THEN RAISED
    ELSE Only({ IF Raised(e) THEN RAISED ELSE minify(e) :
                e \in {expand_checked(automata[phi.name], Len(variables),
                                      Positions(variables, phi.args))} })

build_automaton(automata, phi) ==
    CASE phi.op = "all" ->
           Only({ IF phi.name \notin Range(free_vars)
                  THEN build_automaton(automata, phi.sub[1])
                  ELSE Only({ build_all(automata, phi.name, free_vars, dfa_rec) :
                              dfa_rec \in {Only({ IF Raised(b) THEN RAISED ELSE minify(b) :
                                                  b \in {build_automaton(automata, negate(phi.sub[1]))} })} }) :
                  free_vars \in {get_free_elementary_vars(phi.sub[1])} })
      [] phi.op = "exists" ->
           Only({ build_exists(phi.name, free_vars, dfa_rec) :
                  free_vars \in {get_free_elementary_vars(phi.sub[1])},
                  dfa_rec \in {build_automaton(automata, phi.sub[1])} })
      [] phi.op \in {"and", "or"} ->
           Only({ IF phi.op = "and" THEN build_and(dfa_l, dfa_r) ELSE build_or(dfa_l, dfa_r) :
                  dfa_l \in {expand_checked(build_automaton(automata, phi.sub[1]),
                                            Len(get_free_elementary_vars(phi)),
                                            Positions(get_free_elementary_vars(phi),
                                                      get_free_elementary_vars(phi.sub[1])))},
                  dfa_r \in {expand_checked(build_automaton(automata, phi.sub[2]),
                                            Len(get_free_elementary_vars(phi)),
                                            Positions(get_free_elementary_vars(phi),
                                                      get_free_elementary_vars(phi.sub[2])))} })
      [] phi.op = "not" ->
           IF phi.sub[1].op = "not" THEN build_automaton(automata, phi.sub[1].sub[1])
           ELSE Only({ build_not(automata, get_free_elementary_vars(phi), rec) :
                       rec \in {build_automaton(automata, phi.sub[1])} })
      [] phi.op = "app" -> build_app(automata, phi, get_free_elementary_vars(phi))

(***************************************************************************)
(* buildin.presentations.buechi_arithmetic: the state tables               *)
(***************************************************************************)
Sigma == {"0", "1", "*"}

\* states i, 0, 0+, 1, * are 0, 1, 2, 3, 4
universe ==
    [states        |-> 0..4,
     input_symbols |-> Tuples(Sigma, 1),
     initial_state |-> 0,
     transitions   |-> [q \in 0..4 |-> [a \in Tuples(Sigma, 1) |->
                          IF q = 4 \/ a[1] = "*" THEN 4
                          ELSE IF a[1] = "1" THEN 3
                          ELSE IF q = 0 THEN 1 ELSE 2]],
     final_states  |-> {1, 3}]

\* states 0 (no carry), 1 (carry), 2 (reject)
Bit(c) == IF c = "1" THEN 1 ELSE 0

\* The table of addition with the carry never kept.
addition_without_carry ==
    [states        |-> 0..2,
     input_symbols |-> Tuples(Sigma, 3),
     initial_state |-> 0,
     transitions   |-> [q \in 0..2 |-> [a \in Tuples(Sigma, 3) |->
                          IF q = 2 \/ a[3] = "*" THEN 2
                          ELSE LET sum == Bit(a[1]) + Bit(a[2]) + q
                               IN  IF sum % 2 # Bit(a[3]) THEN 2
                                   ELSE IF a[1] = "*" /\ a[2] = "*" /\ q = 0 THEN 2
                                   ELSE 0]],
     final_states  |-> {0}]

addition ==
    [states        |-> 0..2,
     input_symbols |-> Tuples(Sigma, 3),
     initial_state |-> 0,
     transitions   |-> [q \in 0..2 |-> [a \in Tuples(Sigma, 3) |->
                          IF q = 2 \/ a[3] = "*" THEN 2
                          ELSE LET sum == Bit(a[1]) + Bit(a[2]) + q
                               IN  IF sum % 2 # Bit(a[3]) THEN 2
                                   ELSE IF a[1] = "*" /\ a[2] = "*" /\ q = 0 THEN 2
                                   ELSE sum \div 2]],
     final_states  |-> {0}]

\* states '0', '1', 'e' are 0, 1, 2
weak_div ==
    [states        |-> 0..2,
     input_symbols |-> Tuples(Sigma, 2),
     initial_state |-> 0,
     transitions   |-> [q \in 0..2 |-> [a \in Tuples(Sigma, 2) |->
                          IF q = 0
                          THEN (IF a = <<"0", "0">> THEN 0
                                ELSE IF a = <<"0", "1">> \/ a = <<"1", "1">> THEN 1
                                ELSE 2)
                          ELSE IF q = 1 THEN (IF a[2] # "*" THEN 2 ELSE 1)
                          ELSE 2]],
     final_states  |-> {1}]

(***************************************************************************)
(* AutomaticPresentation                                                   *)
(***************************************************************************)
\* The loop of _prepare_automaton over i in range(arity - 1), from column i.
RECURSIVE RestrictFrom(_, _, _, _)
RestrictFrom(domain, dfa, arity, i) ==
    IF i >= arity - 1 THEN dfa
    ELSE Only({ RestrictFrom(domain, d, arity, i + 1) :
                d \in {minify(intersection(dfa, minify(expand(domain, arity, <<i>>))))} })

\* AutomaticPresentation._prepare_automaton
prepare_automaton(automata, dfa) ==
    Only({ IF Raised(d) \/ d.input_symbols = {} THEN RAISED
           ELSE minify(pad(RestrictFrom(automata["U"], d, Arity(d), 0))) : d \in {dfa} })

\* dict update: m with key bound to value
Bind(m, key, value) == [k \in DOMAIN m \cup {key} |-> IF k = key THEN value ELSE m[k]]

\* AutomaticPresentation.__init__ over the relations given as a sequence of
\* <<name, dfa>> pairs (dict order), U first.
RECURSIVE InitFrom(_, _, _, _)
InitFrom(automata, rels, i, enforce) ==
    IF i > Len(rels) THEN automata
    ELSE Only({ InitFrom(env, rels, i + 1, enforce) :
                env \in {Bind(automata, rels[i][1],
                              IF enforce THEN prepare_automaton(automata, rels[i][2])
                              ELSE minify(pad(rels[i][2])))} })

presentation(U, rels, enforce) ==
    InitFrom([k \in {"U"} |-> minify(pad(U))], rels, 1, enforce)

\* buildin.automata.length_automaton(n, sigma): states '0'..'n' are 0..n
length_automaton(n, sigma) ==
    [states        |-> 0..n,
     input_symbols |-> sigma,
     initial_state |-> 0,
     transitions   |-> [q \in 0..n |-> [a \in sigma |-> IF q < n THEN q + 1 ELSE q]],
     final_states  |-> {n - 1}]

\* buildin.automata.k_longer_automaton(k, r, sigma): states 0..k, and k + 1
\* for the rejecting state -1
k_longer_automaton(k, r, sigma) ==
    LET get_nex_state(i, t) ==
            IF i <= k
            THEN IF (\A j \in 1..r : t[j] = PAD) /\ t[r + 1] # PAD THEN Min({i + 1, k})
                 ELSE IF t[r + 1] = PAD THEN k + 1
                 ELSE IF i = 0 THEN 0
                 ELSE k + 1
            ELSE k + 1
    IN  [states        |-> 0..(k + 1),
         input_symbols |-> Tuples(sigma, r + 1),
         initial_state |-> 0,
         transitions   |-> [i \in 0..(k + 1) |-> [t \in Tuples(sigma, r + 1) |-> get_nex_state(i, t)]],
         final_states  |-> {k}]
(***************************************************************************)
(* The presentation object and its operations                              *)
(***************************************************************************)
VARIABLES
    automata,             \* AutomaticPresentation.automata: symbol -> DFA
    enforce_consistency,  \* the constructor's flag
    updates_done,         \* number of update calls so far
    last,                 \* the last call: its arguments, outcome and the environment before it
    iter,                 \* iterate_language: the call's dfa, backward, nonempty and final
    queue,                \* iterate_language: the heap of (word, state) pairs
    yielded,              \* iterate_language: the words yielded so far, in order
    operand,              \* pad / unpad: the automaton the round trip starts from
    current,              \* pad / unpad: the automaton after the operations applied
    applied,              \* pad / unpad: the operations applied, in order
    terms,                \* the relational-algebra terms constructed so far
    term_last,            \* the last term operator call and its outcome
    pending,              \* a function call: its name and arguments
    returned              \* a function call: what it returned, once it has

pvars == <<automata, enforce_consistency, updates_done, last>>
ivars == <<iter, queue, yielded>>
cvars == <<operand, current, applied>>
tvars == <<terms, term_last>>
fvars == <<pending, returned>>

vars == <<automata, enforce_consistency, updates_done, last, iter, queue, yielded,
          operand, current, applied, terms, term_last, pending, returned>>

\* The variables of the components a specification leaves out.
NoPresentation ==
    automata = <<>> /\ enforce_consistency = FALSE /\ updates_done = 0 /\ last = <<>>
NoIteration == iter = <<>> /\ queue = <<>> /\ yielded = <<>>
NoRoundTrip == operand = <<>> /\ current = <<>> /\ applied = <<>>
NoTerms == terms = {} /\ term_last = <<>>
NoCall == pending = <<>> /\ returned = <<>>

\* A keyword argument of update / an entry of evaluate's updates: a DFA or a
\* formula string.
DfaArg(dfa) == [type |-> "SparseDFA", dfa |-> dfa, phi |-> App("", <<>>)]
StrArg(phi) == [type |-> "str", dfa |-> zero, phi |-> phi]

\* The value stored for one binding.
Prepared(env, value) ==
    IF value.type = "SparseDFA" THEN prepare_automaton(env, value.dfa)
    ELSE prepare_automaton(env, build_automaton(env, value.phi))

\* The loop of update over kwargs from binding i; an exception leaves the
\* loop with the bindings installed so far.
RECURSIVE update_from(_, _, _)
update_from(env, kwargs, i) ==
    IF i > Len(kwargs) THEN [automata |-> env, raised |-> FALSE]
    ELSE Only({ IF Raised(value) THEN [automata |-> env, raised |-> TRUE]
                ELSE update_from(Bind(env, kwargs[i][1], value), kwargs, i + 1) :
                value \in {Prepared(env, kwargs[i][2])} })

\* AutomaticPresentation.update(**kwargs)
update(env, kwargs) == update_from(env, kwargs, 1)

\* The first loop of evaluate: updates[key] is replaced by its prepared
\* automaton, each prepared against the unchanged environment.
PrepareUpdates(env, updates) == [i \in 1..Len(updates) |-> Prepared(env, updates[i][2])]

\* dict(self.automata, **updates)
RECURSIVE Overlay(_, _, _, _)
Overlay(env, updates, values, i) ==
    IF i > Len(updates) THEN env
    ELSE Overlay(Bind(env, updates[i][1], values[i]), updates, values, i + 1)

\* evaluate from line 87 on: values are the prepared updates, overlay the
\* environment they are installed in, built the automaton of phi in it.
evaluate_in(env, phi, values, overlay, built) ==
    IF \E i \in 1..Len(values) : Raised(values[i])
    THEN [automata |-> env, raised |-> TRUE, result |-> RAISED]
    ELSE IF Raised(built)
    THEN [automata |-> overlay, raised |-> TRUE, result |-> RAISED]
    ELSE [automata |-> env, raised |-> FALSE,
          result |-> IF Len(get_free_elementary_vars(phi)) > 0
                     THEN minify(unpad(built)) ELSE built]

\* AutomaticPresentation.evaluate(phi, updates); updates = <<>> stands for None.
evaluate(env, phi, updates) ==
    Only({ Only({ Only({ evaluate_in(env, phi, values, overlay, built) :
                         built \in {IF \E i \in 1..Len(values) : Raised(values[i])
                                    THEN RAISED ELSE build_automaton(overlay, phi)} }) :
                  overlay \in {Overlay(env, updates, values, 1)} }) :
           values \in {PrepareUpdates(env, updates)} })

\* check returning is_empty() itself
check_is_empty(env, phi) ==
    Only({ [raised |-> Raised(built), truth |-> ~Raised(built) /\ isempty(built)] :
           built \in {build_automaton(env, phi)} })

\* AutomaticPresentation.check(phi): the truth value, or the exception
check(env, phi) ==
    Only({ [raised |-> Raised(built), truth |-> ~Raised(built) /\ ~isempty(built)] :
           built \in {build_automaton(env, phi)} })

\* Most update calls on one presentation.
MaxUpdates == 2

SigmaK == Tuples(Sigma, 1)

\* Relations handed to the constructor besides U (dict order).
InitRels ==
    { << <<"B", weak_div>>, <<"K", k_longer_automaton(1, 1, Sigma)>> >>,
      << <<"B", weak_div>>, <<"K", k_longer_automaton(1, 1, Sigma)>>,
         <<"L", length_automaton(3, SigmaK)>> >>,
      << <<"B", weak_div>>, <<"K", k_longer_automaton(2, 1, Sigma)>> >> }

Bxy == App("B", <<"x", "y">>)
Kxy == App("K", <<"x", "y">>)
Pt  == App("B", <<"x", "x">>)

\* Formulas handed to _build_automaton.  Q is bound in no environment, L in
\* one of them.
BuildFormulas ==
    { Bxy, Kxy, Pt, App("L", <<"x">>),
      Exists("y", Kxy), Exists("x", Kxy), Exists("y", Bxy), Exists("x", Bxy),
      Exists("y", And(Kxy, App("B", <<"y", "y">>))),
      Exists("z", And(App("K", <<"x", "z">>), App("K", <<"z", "y">>))),
      Exists("y", Exists("x", Kxy)), Exists("x", Pt), Exists("z", Kxy),
      ForAll("y", Not(Kxy)), ForAll("y", Kxy), ForAll("x", Not(Kxy)), ForAll("x", Bxy),
      ForAll("y", Or(Kxy, Bxy)), ForAll("x", Pt), ForAll("z", Kxy),
      Not(Kxy), Or(Pt, Exists("y", Kxy)), Not(Exists("y", Not(Kxy))),
      Not(Pt), Not(Bxy), Not(Exists("x", Pt)), Not(And(Kxy, Pt)),
      Or(Pt, App("B", <<"y", "y">>)), And(Pt, App("B", <<"y", "y">>)),
      And(Pt, Exists("x", Pt)), And(ForAll("x", Pt), Bxy), Or(Exists("x", Pt), Pt),
      Exists("z", Exists("x", Pt)), Exists("z", Pt), Exists("z", ForAll("y", Not(Kxy))),
      App("Q", <<"x">>), Exists("y", And(Bxy, Not(App("Q", <<"y">>)))) }

\* Formulas handed to check.
CheckFormulas ==
    { Pt, Exists("x", Pt), ForAll("y", Not(Kxy)), App("R", <<"x">>), Kxy,
      And(Kxy, Not(Kxy)), And(Bxy, App("R", <<"y">>)),
      Exists("x", And(App("R", <<"x">>), App("S", <<"x">>))) }

\* Keyword arguments of update (dict order).  R and S are bound only by
\* update.
UpdateArgs ==
    { << <<"R", StrArg(Pt)>> >>,
      << <<"R", DfaArg(length_automaton(3, SigmaK))>> >>,
      << <<"R", StrArg(Exists("y", Kxy))>> >>,
      << <<"R", StrArg(App("Q", <<"x">>))>> >>,
      << <<"R", StrArg(Pt)>>, <<"S", StrArg(Not(App("R", <<"x">>)))>> >>,
      << <<"R", StrArg(Pt)>>, <<"S", StrArg(App("Q", <<"x">>))>> >>,
      << <<"R", DfaArg(length_automaton(2, SigmaK))>>,
         <<"S", StrArg(Exists("y", And(Bxy, Not(App("Q", <<"y">>)))))>> >> }

\* Arguments <<phi, updates>> of evaluate; updates = <<>> is no override.  T
\* is bound only by an override.
EvaluateArgs ==
    { <<Kxy, <<>> >>, <<Exists("y", Kxy), <<>> >>, <<App("Q", <<"x">>), <<>> >>,
      <<App("R", <<"x">>), <<>> >>,
      <<App("T", <<"x">>), << <<"T", DfaArg(length_automaton(3, SigmaK))>> >> >>,
      <<Exists("y", And(Kxy, App("T", <<"y">>))), << <<"T", StrArg(Pt)>> >> >>,
      <<App("Q", <<"x">>), << <<"T", DfaArg(length_automaton(3, SigmaK))>> >> >>,
      <<And(App("T", <<"x">>), App("Q", <<"x">>)), << <<"T", StrArg(Pt)>> >> >>,
      <<App("T", <<"x">>), << <<"T", StrArg(App("Q", <<"x">>))>> >> >> }

NoPhi == App("", <<>>)

\* The record of a call: operation, arguments, whether it raised, the
\* automaton or truth value it returned, and the environment before it.
Call(op, phi, kwargs, raised, result, truth, before) ==
    [op |-> op, phi |-> phi, kwargs |-> kwargs, raised |-> raised,
     result |-> result, truth |-> truth, before |-> before]

\* No call is in progress: the caller may make the next one.
Idle(env) == Call("idle", NoPhi, <<>>, FALSE, zero, FALSE, env)

PInit ==
    \E rels \in InitRels, e \in BOOLEAN :
        \E env \in {presentation(universe, rels, e)} :
            /\ enforce_consistency = e
            /\ automata = env
            /\ updates_done = 0
            /\ last = Idle(env)
            /\ NoIteration /\ NoRoundTrip /\ NoTerms /\ NoCall

\* presentation.update(**kwargs)
Update(kwargs) ==
    /\ last.op = "idle"
    /\ updates_done < MaxUpdates
    /\ \E r \in {update(automata, kwargs)} :
           /\ automata' = r.automata
           /\ last' = Call("update", NoPhi, kwargs, r.raised, zero, FALSE, automata)
    /\ updates_done' = updates_done + 1
    /\ UNCHANGED <<enforce_consistency, ivars, cvars, tvars, fvars>>

\* presentation.evaluate(phi, updates)
Evaluate(phi, updates) ==
    /\ last.op = "idle"
    /\ \E r \in {evaluate(automata, phi, updates)} :
           /\ automata' = r.automata
           /\ last' = Call("evaluate", phi, updates, r.raised, r.result, FALSE, automata)
    /\ UNCHANGED <<enforce_consistency, updates_done, ivars, cvars, tvars, fvars>>

\* presentation.check(phi)
Check(phi) ==
    /\ last.op = "idle"
    /\ \E r \in {check(automata, phi)} :
           last' = Call("check", phi, <<>>, r.raised, zero, r.truth, automata)
    /\ UNCHANGED <<automata, enforce_consistency, updates_done, ivars, cvars, tvars, fvars>>

\* presentation._build_automaton(phi)
BuildAutomaton(phi) ==
    /\ last.op = "idle"
    /\ \E built \in {build_automaton(automata, phi)} :
           last' = Call("build", phi, <<>>, Raised(built), built, FALSE, automata)
    /\ UNCHANGED <<automata, enforce_consistency, updates_done, ivars, cvars, tvars, fvars>>

\* The caller takes the outcome of the last call (the value or the
\* exception) and goes on.
Return ==
    /\ last.op # "idle"
    /\ last' = Idle(automata)
    /\ UNCHANGED <<automata, enforce_consistency, updates_done, ivars, cvars, tvars, fvars>>

PNext ==
    \/ \E kwargs \in UpdateArgs : Update(kwargs)
    \/ \E args \in EvaluateArgs : Evaluate(args[1], args[2])
    \/ \E phi \in CheckFormulas : Check(phi)
    \/ Return

BNext == \E phi \in BuildFormulas : BuildAutomaton(phi)

\* The presentation under update, evaluate and check.
Spec == PInit /\ [][PNext]_vars

\* The formula compiler on the presentations of PInit.
SpecBuild == PInit /\ [][BNext]_vars

(***************************************************************************)
(* Properties of the formula compiler and of the presentation              *)
(***************************************************************************)

\* A and B accept the same words.
LangEq(A, B) ==
    /\ A.input_symbols = B.input_symbols
    /\ isempty(CrossProduct(A, B, "xor"))

\* The states dfa can be in after the word w in the columns other than pos,
\* the column at pos holding any symbols.
RECURSIVE ColumnRun(_, _, _, _)
ColumnRun(dfa, pos, S, w) ==
    IF w = <<>> THEN S
    ELSE ColumnRun(dfa, pos,
                   {dfa.transitions[q][InsertAt(Head(w), pos, a)] : q \in S, a \in BaseSymbols(dfa)},
                   Tail(w))

\* S and the states reached from it when only the column at pos goes on and
\* all other columns are padding.
RECURSIVE LongerValues(_, _, _)
LongerValues(dfa, pos, S) ==
    Only({ IF T = S THEN S ELSE LongerValues(dfa, pos, T) :
           T \in {S \cup {dfa.transitions[q][InsertAt(PadSym(Arity(dfa) - 1), pos, a)] :
                            q \in S, a \in BaseSymbols(dfa)}} })

\* Some value in the column at pos, of any length, makes dfa accept w.
SomeValue(dfa, pos, w) ==
    LongerValues(dfa, pos, ColumnRun(dfa, pos, {dfa.initial_state}, w)) \cap dfa.final_states # {}

\* The last call compiled a quantifier whose variable is free in its term.
BuiltQuantifier(op) ==
    /\ last.op = "build"
    /\ last.phi.op = op
    /\ ~last.raised
    /\ last.phi.name \in free(last.phi.sub[1])

\* C1: the automaton compiled for ForAll x.psi, x free in psi, accepts the
\* same language as the automaton compiled for Not(Exists x.Not(psi)).
C1_ForAllAsNotExistsNot ==
    BuiltQuantifier("all") =>
        LangEq(last.result,
               build_automaton(last.before,
                               Not(Exists(last.phi.name, Not(last.phi.sub[1])))))

\* C2: the automaton compiled for Exists x.psi, x free in psi and psi with
\* at least two free variables, accepts a word w (a tuple with any number
\* of trailing padding symbols) iff some value of x, of any length, makes
\* the automaton compiled for psi accept w with that value in x's column.
C2_ExistsAcceptsIffSomeValue ==
    (BuiltQuantifier("exists") /\ Len(get_free_elementary_vars(last.phi.sub[1])) >= 2) =>
        \E psi_dfa \in {build_automaton(last.before, last.phi.sub[1])},
           pos \in {Index(get_free_elementary_vars(last.phi.sub[1]), last.phi.name)} :
            \A w \in WordsUpTo(last.result.input_symbols, MaxWordLen) :
                Accepts(last.result, w) <=> SomeValue(psi_dfa, pos, w)

\* A compiled Exists x.psi accepts a word of which every value of x is
\* longer than the word itself.
C2_Witness ==
    /\ BuiltQuantifier("exists")
    /\ Len(get_free_elementary_vars(last.phi.sub[1])) >= 2
    /\ \E psi_dfa \in {build_automaton(last.before, last.phi.sub[1])},
          pos \in {Index(get_free_elementary_vars(last.phi.sub[1]), last.phi.name)} :
           \E w \in WordsUpTo(last.result.input_symbols, 2) :
               /\ Accepts(last.result, w)
               /\ ColumnRun(psi_dfa, pos, {psi_dfa.initial_state}, w) \cap psi_dfa.final_states = {}

\* Column c (1-based) of the symbol word w, as a word of 1-ary symbols.
Column(w, c) == [j \in 1..Len(w) |-> <<w[j][c]>>]

\* C3: with consistency enforced, every stored relation other than U
\* accepts only tuples whose every component is a word of L(U).
C3_RelationsWithinUniverse ==
    enforce_consistency =>
        \A R \in DOMAIN automata \ {"U"} :
            \A w \in WordsUpTo(automata[R].input_symbols, MaxWordLen) :
                Accepts(automata[R], w) =>
                    \A c \in 1..Arity(automata[R]) : Accepts(automata["U"], Column(w, c))

\* C4: an update that raised leaves the environment as it was before the call.
C4_FailedUpdateKeepsEnvironment ==
    (last.op = "update" /\ last.raised) => automata = last.before

\* C5: after evaluate, returned or raised, the environment is the one
\* before the call.
C5_EvaluateRestoresEnvironment ==
    last.op = "evaluate" => automata = last.before

(***************************************************************************)
(* Enumeration: utils.misc.cmp_llex and the llex heap,                     *)
(* utils.automata_tools.iterate_language.  A word is a tuple of strings, a *)
(* string a sequence of characters; a heap entry is <<word, state>>.       *)
(***************************************************************************)
\* Longest component of a word the enumeration follows.
MaxIterLen == 3

\* ord(c) of the characters of words and names
Ord(c) ==
    CASE c = " " -> 32 [] c = "*" -> 42
      [] c = "0" -> 48 [] c = "1" -> 49 [] c = "2" -> 50 [] c = "3" -> 51
      [] c = "4" -> 52 [] c = "5" -> 53 [] c = "6" -> 54 [] c = "7" -> 55
      [] c = "8" -> 56 [] c = "9" -> 57
      [] c = "A" -> 65 [] c = "B" -> 66 [] c = "E" -> 69 [] c = "L" -> 76
      [] c = "P" -> 80 [] c = "R" -> 82 [] c = "U" -> 85 [] c = "Z" -> 90
      [] c = "q" -> 113 [] c = "t" -> 116
      [] c = "x" -> 120 [] c = "y" -> 121 [] c = "z" -> 122

\* Python's v < w on strings
StrLt(v, w) ==
    \E i \in 1..Len(w) :
        /\ i <= Len(v) + 1
        /\ \A j \in 1..(i - 1) : v[j] = w[j]
        /\ (i = Len(v) + 1 \/ Ord(v[i]) < Ord(w[i]))

\* max([len(vc) for vc in v])
MaxCompLen(word) == Max({Len(word[c]) : c \in 1..Len(word)})

\* The loop of cmp_llex over zip(v, w), from component c.
RECURSIVE CmpFrom(_, _, _)
CmpFrom(v, w, c) ==
    IF c > Min({Len(v), Len(w)}) THEN 0
    ELSE IF StrLt(v[c], w[c]) THEN -1
    ELSE IF StrLt(w[c], v[c]) THEN 1
    ELSE CmpFrom(v, w, c + 1)

\* The comparison without the lengths: componentwise lexicographic only.
cmp_lex(v, w) == CmpFrom(v[1], w[1], 1)

\* utils.misc.cmp_llex on heap entries: v[1] is the word (v[0] in Python)
cmp_llex(v, w) ==
    IF MaxCompLen(v[1]) < MaxCompLen(w[1]) THEN -1
    ELSE IF MaxCompLen(v[1]) > MaxCompLen(w[1]) THEN 1
    ELSE CmpFrom(v[1], w[1], 1)

\* The characters of str(q), each read as the state it names.
RECURSIVE Digits(_)
Digits(q) == IF q < 10 THEN {q} ELSE Digits(q \div 10) \cup {q % 10}

\* nonempty: backward, the states reachable from the initial state;
\* forward, the states that reach a final state.
nonempty_states(dfa, backward) ==
    IF backward
    THEN {q \in dfa.states : ~isempty([dfa EXCEPT !.final_states = {q}])}
    ELSE {q \in dfa.states : ~isempty([dfa EXCEPT !.initial_state = q])}

\* final: backward {initial_state}, forward final_states
final_states_of(dfa, backward) ==
    IF backward THEN {dfa.initial_state} ELSE dfa.final_states

\* transitions[state][a]: backward, the set of predecessors of state by a;
\* forward, the characters of the successor's name (transitions is
\* dfa.transitions, whose values are state names).
successors(dfa, backward, state, a) ==
    IF backward THEN {q \in dfa.states : dfa.transitions[q][a] = state}
    ELSE Digits(dfa.transitions[state][a])

\* The word extended by the symbol a, padding dropped.
extend(word, a) ==
    [c \in 1..Len(word) |-> IF a[c] # PAD THEN Append(word[c], a[c]) ELSE word[c]]

\* The entries pushed after popping <<word, state>>; words longer than
\* MaxIterLen are left out.
pushed(it, word, state) ==
    {e \in {<<extend(word, a), q>> :
              a \in it.dfa.input_symbols \ {PadSym(Arity(it.dfa))},
              q \in it.dfa.states} :
        /\ e[2] \in it.nonempty
        /\ MaxCompLen(e[1]) <= MaxIterLen
        /\ \E a \in it.dfa.input_symbols \ {PadSym(Arity(it.dfa))} :
               /\ e[1] = extend(word, a)
               /\ e[2] \in successors(it.dfa, it.backward, state, a)}

\* utils.automata_tools.lsbf_automaton(n) for the bits of n, least
\* significant first (bits is format(n, 'b')[::-1])
lsbf_automaton(bits) ==
    [states        |-> 0..(Len(bits) + 1),
     input_symbols |-> SigmaK,
     initial_state |-> 0,
     transitions   |-> [i \in 0..(Len(bits) + 1) |-> [a \in SigmaK |->
                          IF i < Len(bits) /\ a = <<bits[i + 1]>> THEN i + 1
                          ELSE Len(bits) + 1]],
     final_states  |-> {Len(bits)}]

\* The DFAs with states 0 and 1 over the symbols 0 and 1 and the dead state
\* 2, which every padding symbol leads to; t is the table of 0 and 1.
SmallDfa(t, F) ==
    [states        |-> 0..2,
     input_symbols |-> SigmaK,
     initial_state |-> 0,
     transitions   |-> [q \in 0..2 |-> [a \in SigmaK |->
                          IF q = 2 \/ a[1] = PAD THEN 2 ELSE t[q][a[1]]]],
     final_states  |-> F]

SmallDfas == {SmallDfa(t, F) : t \in [0..1 -> [{"0", "1"} -> 0..2]], F \in SUBSET (0..1)}

\* The automata handed to iterate_language.
IterInputs ==
    SmallDfas \cup
    { lsbf_automaton(<<"1">>), lsbf_automaton(<<"0", "1">>),
      k_longer_automaton(1, 1, Sigma), minify(unpad(pad(weak_div))) }

\* iterate_language(dfa, backward=b) up to its loop
IInit ==
    /\ \E A \in IterInputs, b \in BOOLEAN :
           /\ iter = [dfa |-> A, backward |-> b,
                      nonempty |-> nonempty_states(A, b),
                      final |-> final_states_of(A, b)]
           /\ queue = SetToBag({<<[c \in 1..Arity(A) |-> <<>>], q>> : q \in A.final_states})
    /\ yielded = <<>>
    /\ NoPresentation /\ NoRoundTrip /\ NoTerms /\ NoCall

\* One turn of the loop: heappop a least entry, yield its word when its
\* state is in final, heappush the entries that follow it.
IterStep ==
    /\ queue # EmptyBag
    /\ \E e \in BagToSet(queue) :
           /\ \A f \in BagToSet(queue) : cmp_llex(e, f) <= 0
           /\ yielded' = IF e[2] \in iter.final THEN Append(yielded, e[1]) ELSE yielded
           /\ queue' = (queue (-) SetToBag({e})) (+) SetToBag(pushed(iter, e[1], e[2]))
    /\ UNCHANGED <<iter, pvars, cvars, tvars, fvars>>

\* The enumerator, forward and backward.
SpecIterate == IInit /\ [][IterStep]_vars

(***************************************************************************)
(* Properties of the enumeration                                           *)
(***************************************************************************)
\* No word dfa accepts holds the k-fold padding symbol.
Unpadded(dfa) ==
    PadSym(Arity(dfa)) \in dfa.input_symbols =>
    \A q \in Reachable(dfa) :
        ReachFrom(dfa, {}, {dfa.transitions[q][PadSym(Arity(dfa))]}) \cap dfa.final_states = {}

\* Component c of the tuple the symbol word w encodes: its column, padding
\* dropped.
Component(w, c) == SelectSeq([j \in 1..Len(w) |-> w[j][c]], LAMBDA b : b # PAD)

\* The tuples dfa accepts by symbol words of at most n symbols.
AcceptedTuples(dfa, n) ==
    {[c \in 1..Arity(dfa) |-> Component(w, c)] :
       w \in {v \in WordsUpTo(dfa.input_symbols, n) : Accepts(dfa, v)}}

Reverse(s) == [j \in 1..Len(s) |-> s[Len(s) + 1 - j]]

ReverseTuple(t) == [c \in 1..Len(t) |-> Reverse(t[c])]

\* s before t in the lexicographic order of strings over 0 < 1, or s = t.
RECURSIVE LexLeq(_, _)
LexLeq(s, t) ==
    IF s = <<>> THEN TRUE
    ELSE IF t = <<>> THEN FALSE
    ELSE IF Head(s) # Head(t) THEN Head(s) = "0"
    ELSE LexLeq(Tail(s), Tail(t))

\* v before w componentwise, the first differing component deciding, or v = w.
RECURSIVE TupleLexLeq(_, _)
TupleLexLeq(v, w) ==
    IF v = <<>> THEN TRUE
    ELSE IF Head(v) # Head(w) THEN LexLeq(Head(v), Head(w))
    ELSE TupleLexLeq(Tail(v), Tail(w))

\* The length-lexicographic order of tuples: the longest component first,
\* then componentwise lexicographic.
LlexLeq(v, w) ==
    \/ MaxCompLen(v) < MaxCompLen(w)
    \/ MaxCompLen(v) = MaxCompLen(w) /\ TupleLexLeq(v, w)

\* What has been yielded is drawn from L without repetition in
\* non-decreasing length-lexicographic order, and is all of L once the
\* heap is empty.
EnumeratesInOrder(L) ==
    /\ \A i \in 1..Len(yielded) : yielded[i] \in L
    /\ \A i, j \in 1..Len(yielded) :
           i < j => yielded[i] # yielded[j] /\ LlexLeq(yielded[i], yielded[j])
    /\ queue = EmptyBag => L \subseteq Range(yielded)

\* C6: backward enumeration of an unpadded DFA yields the componentwise
\* reversal of each accepted tuple exactly once, nothing else, in
\* non-decreasing length-lexicographic order (tuples up to MaxIterLen).
C6_BackwardEnumeratesReversals ==
    (iter.backward /\ Unpadded(iter.dfa)) =>
        EnumeratesInOrder({ReverseTuple(t) : t \in AcceptedTuples(iter.dfa, MaxIterLen)})

\* A backward enumeration has ended with words of several lengths, two of
\* one length, and a word that is not its own reversal.
C6_Witness ==
    /\ iter.backward
    /\ Unpadded(iter.dfa)
    /\ queue = EmptyBag
    /\ \E i, j, k \in 1..Len(yielded) :
           /\ i < j /\ j < k
           /\ MaxCompLen(yielded[i]) < MaxCompLen(yielded[j])
           /\ MaxCompLen(yielded[j]) = MaxCompLen(yielded[k])
           /\ ReverseTuple(yielded[k]) # yielded[k]

\* C7: forward enumeration of an unpadded DFA yields exactly the accepted
\* tuples, each once, in length-lexicographic order (tuples up to
\* MaxIterLen).
C7_ForwardEnumeratesLanguage ==
    (~iter.backward /\ Unpadded(iter.dfa)) =>
        EnumeratesInOrder(AcceptedTuples(iter.dfa, MaxIterLen))

(***************************************************************************)
(* Round trips of utils.automata_tools.pad and unpad                       *)
(***************************************************************************)
\* Calls of pad and unpad made on one operand.
MaxOps == 2

\* SmallDfa over the symbols 0 and 1 only: no padding symbol in the
\* alphabet.
BareDfa(t, F) ==
    [states        |-> 0..2,
     input_symbols |-> {<<"0">>, <<"1">>},
     initial_state |-> 0,
     transitions   |-> [q \in 0..2 |-> [a \in {<<"0">>, <<"1">>} |->
                          IF q = 2 THEN 2 ELSE t[q][a[1]]]],
     final_states  |-> F]

\* States 0 and 1 over 0 and 1 with the table t, the dead state 2 and the
\* state 3 of the padding tail; p is where the padding symbol leads from 0
\* and 1.
TailDfa(t, F, p) ==
    [states        |-> 0..3,
     input_symbols |-> SigmaK,
     initial_state |-> 0,
     transitions   |-> [q \in 0..3 |-> [a \in SigmaK |->
                          IF q = 2 THEN 2
                          ELSE IF q = 3 THEN (IF a[1] = PAD THEN 3 ELSE 2)
                          ELSE IF a[1] = PAD THEN p[q]
                          ELSE t[q][a[1]]]],
     final_states  |-> F \cup {3}]

SmallTables == [0..1 -> [{"0", "1"} -> 0..2]]

\* The automata pad and unpad are applied to.
PadInputs ==
    SmallDfas
    \cup {BareDfa(t, F) : t \in SmallTables, F \in SUBSET (0..1)}
    \cup {TailDfa(t, F, p) : t \in SmallTables, F \in SUBSET (0..1), p \in [0..1 -> 2..3]}
    \cup { universe, weak_div, addition, k_longer_automaton(1, 1, Sigma),
           lsbf_automaton(<<"0", "1">>), length_automaton(3, SigmaK) }
    \cup UNION {{env[R] : R \in DOMAIN env} :
                   env \in {presentation(universe, rels, TRUE) : rels \in InitRels}}

RInit ==
    /\ operand \in PadInputs
    /\ current = operand
    /\ applied = <<>>
    /\ NoPresentation /\ NoIteration /\ NoTerms /\ NoCall

\* current = pad(current)
Pad ==
    /\ Len(applied) < MaxOps
    /\ ~Raised(current)
    /\ current' = pad(current)
    /\ applied' = Append(applied, "pad")
    /\ UNCHANGED <<operand, pvars, ivars, tvars, fvars>>

\* current = unpad(current); dfa.transitions[q][padding_symbol * arity]
\* raises KeyError when the alphabet has no padding symbol.
Unpad ==
    /\ Len(applied) < MaxOps
    /\ ~Raised(current)
    /\ current' = IF PadSym(Arity(current)) \in current.input_symbols
                  THEN unpad(current) ELSE RAISED
    /\ applied' = Append(applied, "unpad")
    /\ UNCHANGED <<operand, pvars, ivars, tvars, fvars>>

RNext == Pad \/ Unpad

\* pad and unpad applied in any order.
SpecPad == RInit /\ [][RNext]_vars

(***************************************************************************)
(* Properties of the round trips                                           *)
(***************************************************************************)
\* dfa over the larger alphabet symbols, the new symbols leading to a new
\* dead state.
Completed(dfa, symbols) ==
    [states        |-> dfa.states \cup {Max(dfa.states) + 1},
     input_symbols |-> symbols,
     initial_state |-> dfa.initial_state,
     transitions   |-> [q \in dfa.states \cup {Max(dfa.states) + 1} |-> [a \in symbols |->
                          IF q \in dfa.states /\ a \in dfa.input_symbols
                          THEN dfa.transitions[q][a] ELSE Max(dfa.states) + 1]],
     final_states  |-> dfa.final_states]

\* A and B accept the same words, whatever their alphabets.
SameLanguage(A, B) ==
    Only({ isempty(CrossProduct(Completed(A, symbols), Completed(B, symbols), "xor")) :
           symbols \in {A.input_symbols \cup B.input_symbols} })

\* No final state is reachable from q.
Dead(dfa, q) == ReachFrom(dfa, {}, {q}) \cap dfa.final_states = {}

\* L(dfa) is L' followed by any number of k-fold padding symbols, L' free of
\* it: a word is accepted iff it is with one more padding symbol, and
\* nothing but padding is accepted after padding.
Padded(dfa) ==
    /\ PadSym(Arity(dfa)) \in dfa.input_symbols
    /\ \A q \in Reachable(dfa) :
          /\ q \in dfa.final_states <=> dfa.transitions[q][PadSym(Arity(dfa))] \in dfa.final_states
          /\ \A a \in dfa.input_symbols \ {PadSym(Arity(dfa))} :
                Dead(dfa, dfa.transitions[dfa.transitions[q][PadSym(Arity(dfa))]][a])

C9_PadOfUnpad ==
    (applied = <<"unpad", "pad">> /\ Padded(operand)) => SameLanguage(current, operand)

\* pad(unpad(A)) has been computed for a padded A that accepts a word
\* with a padding tail.
C9_Witness ==
    /\ applied = <<"unpad", "pad">>
    /\ Padded(operand)
    /\ ~Raised(current)
    /\ \E w \in WordsUpTo(operand.input_symbols, 3) :
          /\ Accepts(operand, w)
          /\ Len(w) = 3
          /\ w[1] # PadSym(Arity(operand))
          /\ w[3] = PadSym(Arity(operand))

(***************************************************************************)
(* arithmetic: the relational-algebra terms and their operators.  An       *)
(* object is the function from its attribute names to their values, and    *)
(* class is the name of its class.                                         *)
(***************************************************************************)
\* Terms kept at a time.
MaxTerms == 3

None == "None"

\* The outcome of a call that raises TypeError.
TypeError == [raised |-> "TypeError"]

IsRaised(t) == "raised" \in DOMAIN t

\* The base class each class names first, abc.ABC apart.
Bases ==
    [Term                  |-> "object",
     RelationalAlgebraTerm |-> "Term",
     BaseRATerm            |-> "RelationalAlgebraTerm",
     BinaryRATerm          |-> "RelationalAlgebraTerm",
     IntersectionRATerm    |-> "BinaryRATerm",
     UnionRATerm           |-> "BinaryRATerm",
     ComplementRATerm      |-> "RelationalAlgebraTerm",
     ElementaryTerm        |-> "Term",
     DropRARelation        |-> "RelationalAlgebraTerm",
     ConstantETerm         |-> "ElementaryTerm",
     VariableETerm         |-> "ElementaryTerm",
     AdditionETerm         |-> "ElementaryTerm"]

RECURSIVE issubclass(_, _)
issubclass(c, d) == c = d \/ (c # "object" /\ issubclass(Bases[c], d))

\* self.name = value
SetAttr(self, name, value) == (name :> value) @@ self

\* The object before __init__ runs.
New(cls) == [class |-> cls]

\* super(cls, self) raises TypeError unless self is an instance of cls.
SuperRaises(cls, self) == ~issubclass(self.class, cls)

\* Term.__init__
Term_init(self) == SetAttr(self, "presentation", None)

\* ElementaryTerm.__init__
ElementaryTerm_init(self) == SetAttr(Term_init(self), "presentation", None)

\* VariableETerm(name)
VariableETerm(name) == SetAttr(ElementaryTerm_init(New("VariableETerm")), "name", name)

\* BaseRATerm(relation_symbol, terms)
BaseRATerm(relation_symbol, ts) ==
    IF SuperRaises("BaseRATerm", New("BaseRATerm")) THEN TypeError
    ELSE SetAttr(SetAttr(Term_init(New("BaseRATerm")), "R", relation_symbol), "terms", ts)

\* BinaryRATerm.__init__
BinaryRATerm_init(self, left, right) ==
    SetAttr(SetAttr(SetAttr(Term_init(self), "template", None), "left", left), "right", right)

\* IntersectionRATerm.__init__: super(IntersectionRATerm, self)
IntersectionRATerm_init(self, left, right) ==
    IF SuperRaises("IntersectionRATerm", self) THEN TypeError
    ELSE SetAttr(BinaryRATerm_init(self, left, right), "template", "(({} and {}))")

\* UnionRATerm.__init__: super(IntersectionRATerm, self) here as well
UnionRATerm_init(self, left, right) ==
    IF SuperRaises("IntersectionRATerm", self) THEN TypeError
    ELSE SetAttr(BinaryRATerm_init(self, left, right), "template", "(({} or {}))")

IntersectionRATerm(left, right) ==
    IntersectionRATerm_init(New("IntersectionRATerm"), left, right)

UnionRATerm(left, right) == UnionRATerm_init(New("UnionRATerm"), left, right)

\* ComplementRATerm(relation)
ComplementRATerm(relation) ==
    SetAttr(Term_init(New("ComplementRATerm")), "relation", relation)

\* RelationalAlgebraTerm.__and__, __or__, __invert__
RelationalAlgebraTerm_and(self, other) == IntersectionRATerm(self, other)

RelationalAlgebraTerm_or(self, other) == UnionRATerm(self, other)

RelationalAlgebraTerm_invert(self) == ComplementRATerm(self)

\* ElementaryTerm.eq, lt and __or__: the atomic relations Eq, Lt and B
ElementaryTerm_rel(relation_symbol, self, other) == BaseRATerm(relation_symbol, <<self, other>>)

TermCall(op, args, result) ==
    [op |-> op, args |-> args, raised |-> IsRaised(result), result |-> result]

\* The terms after a call: a call that raises adds none.
Keep(result) == IF IsRaised(result) THEN terms ELSE terms \cup {result}

TInit ==
    /\ terms = {}
    /\ term_last = [op |-> "none"]
    /\ NoPresentation /\ NoIteration /\ NoRoundTrip /\ NoCall

\* x.eq(y), x.lt(y), x | y on variables
Atom(relation_symbol, x, y) ==
    /\ Cardinality(terms) < MaxTerms
    /\ \E t \in {ElementaryTerm_rel(relation_symbol, VariableETerm(x), VariableETerm(y))} :
          /\ terms' = Keep(t)
          /\ term_last' = TermCall("atom", <<x, y>>, t)
    /\ UNCHANGED <<pvars, ivars, cvars, fvars>>

\* a & b
AndTerms(a, b) ==
    /\ Cardinality(terms) < MaxTerms
    /\ \E t \in {RelationalAlgebraTerm_and(a, b)} :
          /\ terms' = Keep(t)
          /\ term_last' = TermCall("and", <<a, b>>, t)
    /\ UNCHANGED <<pvars, ivars, cvars, fvars>>

\* a | b
OrTerms(a, b) ==
    /\ Cardinality(terms) < MaxTerms
    /\ \E t \in {RelationalAlgebraTerm_or(a, b)} :
          /\ terms' = Keep(t)
          /\ term_last' = TermCall("or", <<a, b>>, t)
    /\ UNCHANGED <<pvars, ivars, cvars, fvars>>

\* ~a
InvertTerm(a) ==
    /\ Cardinality(terms) < MaxTerms
    /\ \E t \in {RelationalAlgebraTerm_invert(a)} :
          /\ terms' = Keep(t)
          /\ term_last' = TermCall("invert", <<a>>, t)
    /\ UNCHANGED <<pvars, ivars, cvars, fvars>>

TNext ==
    \/ \E R \in {"Eq", "Lt"}, xy \in {<<"x", "y">>, <<"y", "z">>} : Atom(R, xy[1], xy[2])
    \/ \E a, b \in terms : AndTerms(a, b)
    \/ \E a, b \in terms : OrTerms(a, b)
    \/ \E a \in terms : InvertTerm(a)

\* Terms built by the operators of RelationalAlgebraTerm.
SpecTerms == TInit /\ [][TNext]_vars

(***************************************************************************)
(* Properties of the term operators                                        *)
(***************************************************************************)
\* The call returned a term of class cls over its two operands with the
\* formula template template.
Constructed(cls, template) ==
    /\ ~term_last.raised
    /\ term_last.result.class = cls
    /\ term_last.result.template = template
    /\ term_last.result.left = term_last.args[1]
    /\ term_last.result.right = term_last.args[2]

\* C10: a | b constructs a union term with the template "(({} or {}))" and
\* a & b an intersection term with the template "(({} and {}))"; both
\* constructions succeed.
C10_OperatorsConstructTerms ==
    /\ term_last.op = "or" => Constructed("UnionRATerm", "(({} or {}))")
    /\ term_last.op = "and" => Constructed("IntersectionRATerm", "(({} and {}))")

(***************************************************************************)
(* utils.misc.get_unique_id.  A name is the sequence of its characters.    *)
(***************************************************************************)
\* Largest number of names asked for.
MaxNew == 11

\* Longest list of existing names.
MaxExisting == 2

\* max(current_id) on a non-empty list of strings
StrMax(names) ==
    CHOOSE m \in Range(names) : \A v \in Range(names) : v = m \/ StrLt(v, m)

DigitChars == <<"0", "1", "2", "3", "4", "5", "6", "7", "8", "9">>

\* str(i)
RECURSIVE Str(_)
Str(i) == IF i < 10 THEN <<DigitChars[i + 1]>> ELSE Append(Str(i \div 10), DigitChars[(i % 10) + 1])

\* f'{i:{width}d}': str(i) right-aligned with spaces
FormatD(i, width) ==
    [j \in 1..(Max({width, Len(Str(i))}) - Len(Str(i))) |-> " "] \o Str(i)

\* get_unique_id(current_id, n): a str when n = 1, a list otherwise;
\* max of an empty list raises ValueError
get_unique_id(current_id, n) ==
    IF current_id = <<>> THEN [kind |-> "ValueError", value |-> <<>>]
    ELSE IF n = 1 THEN [kind |-> "str", value |-> StrMax(current_id) \o <<"0">>]
    ELSE [kind  |-> "list",
          value |-> [i \in 1..n |-> StrMax(current_id) \o FormatD(i - 1, Len(Str(n)))]]

\* The names in the lists of existing names.
KnownNames ==
    { <<"x">>, <<"y">>, <<"x", "0">>, <<"x", " ", "1">>, <<"U">>, <<"U", "1", "0">> }

ExistingLists == UNION {[1..k -> KnownNames] : k \in 0..MaxExisting}

NotReturned == [kind |-> "none", value |-> <<>>]

UInit ==
    /\ \E current_id \in ExistingLists, n \in 1..MaxNew :
          pending = [fn |-> "get_unique_id", current_id |-> current_id, n |-> n]
    /\ returned = NotReturned
    /\ NoPresentation /\ NoIteration /\ NoRoundTrip /\ NoTerms

GetUniqueId ==
    /\ returned = NotReturned
    /\ returned' = get_unique_id(pending.current_id, pending.n)
    /\ UNCHANGED <<pending, pvars, ivars, cvars, tvars>>

\* Calls of get_unique_id.
SpecUnique == UInit /\ [][GetUniqueId]_vars

\* The names a call returned: the str itself, or the entries of the list.
NamesOf(r) == IF r.kind = "str" THEN <<r.value>> ELSE r.value

\* C11: for every list of existing names, the empty one included, and
\* every n >= 1, get_unique_id returns n names, pairwise distinct and none
\* of them among the existing ones.
C11_UniqueIdsAreNew ==
    returned # NotReturned =>
        /\ returned.kind \in {"str", "list"}
        /\ Len(NamesOf(returned)) = pending.n
        /\ \A i, j \in 1..Len(NamesOf(returned)) :
              i # j => NamesOf(returned)[i] # NamesOf(returned)[j]
        /\ Range(NamesOf(returned)) \cap Range(pending.current_id) = {}

(***************************************************************************)
(* arithmetic: elementary terms, addition and multiplication by a constant *)
(***************************************************************************)
\* Largest constant a term is multiplied by.
MaxFactor == 9

\* ConstantETerm(n)
ConstantETerm(n) == SetAttr(ElementaryTerm_init(New("ConstantETerm")), "n", n)

\* AdditionETerm(left, right)
AdditionETerm(left, right) ==
    SetAttr(SetAttr(ElementaryTerm_init(New("AdditionETerm")), "left", left), "right", right)

\* ElementaryTerm.__add__ on two terms
ElementaryTerm_add(self, other) == AdditionETerm(self, other)

\* math.floor(math.log(other, 2)) + 1 for other >= 1
RECURSIVE FloorLog2Plus1(_)
FloorLog2Plus1(other) == IF other <= 1 THEN 1 ELSE 1 + FloorLog2Plus1(other \div 2)

\* The for loop of __mul__ with rounds turns left.  power_multiples is the
\* list (empty for None), term the list of at most one term (empty for
\* None), additions the number of calls of __add__ so far.
RECURSIVE MulLoop(_, _, _, _, _, _)
MulLoop(self, rounds, power_multiples, term, other, additions) ==
    IF rounds = 0 THEN [term |-> term, additions |-> additions]
    ELSE LET pm == IF power_multiples = <<>> THEN <<self>>
                   ELSE Append(power_multiples,
                               ElementaryTerm_add(power_multiples[Len(power_multiples)],
                                                  power_multiples[Len(power_multiples)]))
             doubled == IF power_multiples = <<>> THEN 0 ELSE 1
         IN  IF other % 2 = 1
             THEN MulLoop(self, rounds - 1, pm,
                          IF term = <<>> THEN <<pm[Len(pm)]>>
                          ELSE <<ElementaryTerm_add(term[1], pm[Len(pm)])>>,
                          (other - 1) \div 2,
                          additions + doubled + (IF term = <<>> THEN 0 ELSE 1))
             ELSE MulLoop(self, rounds - 1, pm, term, other \div 2, additions + doubled)

\* __mul__ without its isinstance test and with the logarithm of the
\* absolute value.
ElementaryTerm_mul_unchecked(self, other) ==
    Only({ IF r.term = <<>> THEN [kind |-> "None", value |-> <<>>]
           ELSE [kind |-> "term", value |-> [term |-> r.term[1], additions |-> r.additions]] :
           r \in {MulLoop(self, IF other.value = 0 THEN 1
                                ELSE FloorLog2Plus1(IF other.value < 0 THEN -other.value ELSE other.value),
                          <<>>, <<>>, other.value, 0)} })

\* ElementaryTerm.__mul__(self, other).  other is [type, value]: an int, or
\* a value of another type.  math.log raises ValueError on a negative
\* number; the loop returns None when no bit of other is set.
ElementaryTerm_mul(self, other) ==
    IF other.type # "int" THEN [kind |-> "ValueError", value |-> <<>>]
    ELSE IF other.value < 0 THEN [kind |-> "ValueError", value |-> <<>>]
    ELSE Only({ IF r.term = <<>> THEN [kind |-> "None", value |-> <<>>]
                ELSE [kind |-> "term", value |-> [term |-> r.term[1], additions |-> r.additions]] :
                r \in {MulLoop(self, IF other.value = 0 THEN 1 ELSE FloorLog2Plus1(other.value),
                               <<>>, <<>>, other.value, 0)} })

\* ElementaryTerm.__rmul__
ElementaryTerm_rmul(self, other) == ElementaryTerm_mul(self, other)

\* The terms multiplied.
MulOperands ==
    { VariableETerm("x"), ConstantETerm(3),
      AdditionETerm(VariableETerm("x"), VariableETerm("y")),
      AdditionETerm(AdditionETerm(VariableETerm("x"), ConstantETerm(1)), VariableETerm("x")) }

\* The factors: ints from -MaxFactor to MaxFactor, floats and strings.
MulFactors ==
    {[type |-> "int", value |-> c] : c \in (-MaxFactor)..MaxFactor}
    \cup {[type |-> ty, value |-> c] : ty \in {"float", "str"}, c \in {-1, 0, 2}}

MInit ==
    /\ \E fn \in {"__mul__", "__rmul__"}, t \in MulOperands, c \in MulFactors :
          pending = [fn |-> fn, self |-> t, other |-> c]
    /\ returned = NotReturned
    /\ NoPresentation /\ NoIteration /\ NoRoundTrip /\ NoTerms

\* t * c
Mul ==
    /\ pending.fn = "__mul__"
    /\ returned = NotReturned
    /\ returned' = ElementaryTerm_mul(pending.self, pending.other)
    /\ UNCHANGED <<pending, pvars, ivars, cvars, tvars>>

\* c * t
RMul ==
    /\ pending.fn = "__rmul__"
    /\ returned = NotReturned
    /\ returned' = ElementaryTerm_rmul(pending.self, pending.other)
    /\ UNCHANGED <<pending, pvars, ivars, cvars, tvars>>

MNext == Mul \/ RMul

\* Multiplications of an elementary term by a constant.
SpecMul == MInit /\ [][MNext]_vars

(***************************************************************************)
(* Properties of the multiplication                                        *)
(***************************************************************************)
\* The value of an elementary term under the valuation val of x and y.
RECURSIVE Eval(_, _)
Eval(t, val) ==
    CASE t.class = "VariableETerm" -> val[t.name]
      [] t.class = "ConstantETerm" -> t.n
      [] t.class = "AdditionETerm" -> Eval(t.left, val) + Eval(t.right, val)

Valuations == [{"x", "y"} -> 0..2]

\* Number of bits of c.
RECURSIVE BitLength(_)
BitLength(c) == IF c = 0 THEN 0 ELSE 1 + BitLength(c \div 2)

\* C12: for every elementary term t and constant c >= 0, zero included,
\* t * c and c * t return an elementary term whose value is c times the
\* value of t, built with at most 2 * bitlength(c) additions.
C12_MulIsMultiple ==
    (returned # NotReturned /\ pending.other.type = "int" /\ pending.other.value >= 0) =>
        /\ returned.kind = "term"
        /\ \A val \in Valuations :
              Eval(returned.value.term, val) = pending.other.value * Eval(pending.self, val)
        /\ returned.value.additions <= 2 * BitLength(pending.other.value)

\* C13: multiplying an elementary term by a negative integer or by a value
\* that is no integer raises an error and returns no term.
C13_MulRejectsBadFactor ==
    (returned # NotReturned /\ (pending.other.type # "int" \/ pending.other.value < 0)) =>
        returned.kind = "ValueError"

\* t * c and c * t have been called with a negative int, and with a float.
C13_Witness ==
    /\ returned.kind = "ValueError"
    /\ pending.fn = "__rmul__"
    /\ pending.other \in {[type |-> "int", value |-> -1], [type |-> "float", value |-> 2]}
    /\ pending.self.class = "AdditionETerm"

(***************************************************************************)
(* buildin.presentations.buechi_arithmetic: the presentation and the       *)
(* relations its symbols denote over the natural numbers                   *)
(***************************************************************************)
\* Largest number whose membership in a relation is asked.
MaxNat == 4

\* presentation.update(R=phi), the environment afterwards
Updated(env, R, phi) == update(env, <<<<R, StrArg(phi)>>>>).automata

\* buechi_arithmetic(): U, A, B, then Z, Eq, Pt, Lt by update
buechi_arithmetic ==
    Updated(
      Updated(
        Updated(
          Updated(presentation(universe, <<<<"A", addition>>, <<"B", weak_div>>>>, TRUE),
                  "Z", App("A", <<"x", "x", "x">>)),
          "Eq", Exists("z", And(App("Z", <<"z">>), App("A", <<"x", "z", "y">>)))),
        "Pt", App("B", <<"x", "x">>)),
      "Lt", Exists("z", And(Not(App("Z", <<"z">>)), App("A", <<"x", "z", "y">>))))

\* format(n, 'b')[::-1]: the bits of n, least significant first
RECURSIVE LsbfBits(_)
LsbfBits(n) ==
    IF n < 2 THEN <<DigitChars[n + 1]>>
    ELSE <<DigitChars[(n % 2) + 1]>> \o LsbfBits(n \div 2)

\* The convolution of the words ws: symbol j holds the j-th characters,
\* the padding symbol where a word has ended.
Convolution(ws) ==
    [j \in 1..Max({Len(ws[c]) : c \in 1..Len(ws)}) |->
       [c \in 1..Len(ws) |-> IF j <= Len(ws[c]) THEN ws[c][j] ELSE PAD]]

\* The encoding of a tuple of numbers.
Encode(ns) == Convolution([c \in 1..Len(ns) |-> LsbfBits(ns[c])])

\* int(word, base=2) of a msb-first word, as __iter__ applies it to the
\* reversed tuples: here on the lsbf word itself.  -1 stands for the
\* ValueError of the empty word.
RECURSIVE LsbfValue(_)
LsbfValue(w) ==
    IF w = <<>> THEN 0 ELSE Bit(Head(w)) + 2 * LsbfValue(Tail(w))

Decode(w) == IF w = <<>> THEN -1 ELSE LsbfValue(w)

\* The characters of the names of variables and relation symbols.
Chars ==
    [x  |-> <<"x">>, y |-> <<"y">>, z |-> <<"z">>,
     y0 |-> <<"y", "0">>, y1 |-> <<"y", "1">>, y2 |-> <<"y", "2">>,
     z0 |-> <<"z", "0">>, z1 |-> <<"z", "1">>,
     x0 |-> <<"x", "0">>, x00 |-> <<"x", "0", "0">>,
     y00 |-> <<"y", "0", "0">>, z00 |-> <<"z", "0", "0">>,
     U  |-> <<"U">>, A |-> <<"A">>, B |-> <<"B">>, Z |-> <<"Z">>,
     Eq |-> <<"E", "q">>, Pt |-> <<"P", "t">>, Lt |-> <<"L", "t">>,
     Z0 |-> <<"Z", "0">>, Z1 |-> <<"Z", "1">>]

\* The name with the characters s.
NameStr(s) == CHOOSE a \in DOMAIN Chars : Chars[a] = s

\* list(S)
RECURSIVE SeqOf(_)
SeqOf(S) == IF S = {} THEN <<>> ELSE LET x == CHOOSE x \in S : TRUE IN <<x>> \o SeqOf(S \ {x})

\* get_unique_id(existing, n) for n >= 2 on names
UniqueNames(existing, n) ==
    Only({ [i \in 1..n |-> NameStr(r.value[i])] :
           r \in {get_unique_id([i \in 1..Len(existing) |-> Chars[existing[i]]], n)} })

\* get_variables of an elementary term: the sorted list of its variables
RECURSIVE TermVars(_)
TermVars(t) ==
    CASE t.class = "VariableETerm" -> {t.name}
      [] t.class = "ConstantETerm" -> {}
      [] t.class = "AdditionETerm" -> TermVars(t.left) \cup TermVars(t.right)

ETerm_get_variables(t) == SelectSeq(VarNames, LAMBDA v : v \in TermVars(t))

\* arithmetic.update(**updates) with automata, the environment afterwards
UpdatedWith(env, updates) ==
    update(env, [i \in 1..Len(updates) |-> <<updates[i][1], DfaArg(updates[i][2])>>]).automata

\* evaluate() of an elementary term on the presentation arithmetic:
\* VariableETerm, ConstantETerm and AdditionETerm.update_presentation
RECURSIVE ETerm_evaluate(_, _)
ETerm_evaluate(arithmetic, t) ==
    CASE t.class = "VariableETerm" -> arithmetic["U"]
      [] t.class = "ConstantETerm" -> lsbf_automaton(LsbfBits(t.n))
      [] t.class = "AdditionETerm" ->
           LET ids  == UniqueNames(ETerm_get_variables(t), 3)
               rels == UniqueNames(SeqOf(DOMAIN arithmetic), 2)
               left_is_var  == t.left.class = "VariableETerm"
               right_is_var == t.right.class = "VariableETerm"
               x == IF left_is_var THEN t.left.name ELSE ids[1]
               y == IF right_is_var THEN t.right.name ELSE ids[2]
               phi0 == App("A", <<x, y, ids[3]>>)
               phi1 == IF left_is_var THEN phi0
                       ELSE Exists(ids[1], And(App(rels[1], Append(ETerm_get_variables(t.left), ids[1])), phi0))
               phi2 == IF right_is_var THEN phi1
                       ELSE Exists(ids[2], And(App(rels[2], Append(ETerm_get_variables(t.right), ids[2])), phi1))
           IN  evaluate(UpdatedWith(arithmetic,
                                    << <<rels[1], ETerm_evaluate(arithmetic, t.left)>>,
                                       <<rels[2], ETerm_evaluate(arithmetic, t.right)>> >>),
                        phi2, <<>>).result

\* BaseRATerm.get_variables
BaseRATerm_get_variables(term) ==
    SelectSeq(VarNames, LAMBDA v : \E i \in 1..Len(term.terms) : v \in TermVars(term.terms[i]))

\* BaseRATerm.to_fo: the formula after the first i terms of the loop, over
\* the arguments final_vars
RECURSIVE ToFoFrom(_, _, _, _, _)
ToFoFrom(term, unique_rels, unique_vars, final_vars, i) ==
    IF i = 0 THEN App(term.R, final_vars)
    ELSE IF term.terms[i].class = "VariableETerm"
    THEN ToFoFrom(term, unique_rels, unique_vars, final_vars, i - 1)
    ELSE Exists(unique_vars[i],
                And(App(unique_rels[i], Append(ETerm_get_variables(term.terms[i]), unique_vars[i])),
                    ToFoFrom(term, unique_rels, unique_vars, final_vars, i - 1)))

\* BaseRATerm.to_fo: the formula and the terms bound to the new symbols
BaseRATerm_to_fo(arithmetic, term) ==
    LET n == Len(term.terms)
        unique_vars == UniqueNames(BaseRATerm_get_variables(term), n)
        unique_rels == UniqueNames(SeqOf(DOMAIN arithmetic), n)
        final_vars == [i \in 1..n |-> IF term.terms[i].class = "VariableETerm"
                                      THEN term.terms[i].name ELSE unique_vars[i]]
        bound == {i \in 1..n : term.terms[i].class # "VariableETerm"}
    IN  [phi     |-> ToFoFrom(term, unique_rels, unique_vars, final_vars, n),
         updates |-> [j \in 1..Cardinality(bound) |->
                        LET i == CHOOSE i \in bound : Cardinality({k \in bound : k < i}) = j - 1
                        IN  <<unique_rels[i], term.terms[i]>>]]

\* BaseRATerm.update_presentation: the presentation of the term
BaseRATerm_update_presentation(arithmetic, term) ==
    Only({ evaluate(UpdatedWith(arithmetic,
                                [j \in 1..Len(fo.updates) |->
                                   <<fo.updates[j][1], ETerm_evaluate(arithmetic, fo.updates[j][2])>>]),
                    fo.phi, <<>>).result :
           fo \in {BaseRATerm_to_fo(arithmetic, term)} })

\* The queries: the formulas A(x,y,z) and B(x,y), and the term (x + y).eq(z).
ArithQueries == {"A", "B", "term"}

QueryResult(arithmetic, q) ==
    CASE q = "A" -> evaluate(arithmetic, App("A", <<"x", "y", "z">>), <<>>).result
      [] q = "B" -> evaluate(arithmetic, App("B", <<"x", "y">>), <<>>).result
      [] q = "term" ->
           BaseRATerm_update_presentation(arithmetic,
               ElementaryTerm_rel("Eq", ElementaryTerm_add(VariableETerm("x"), VariableETerm("y")),
                                  VariableETerm("z")))

AInit ==
    /\ automata = buechi_arithmetic
    /\ enforce_consistency = TRUE
    /\ updates_done = 0
    /\ last = Idle(automata)
    /\ pending = [fn |-> "none", query |-> "", relation |-> zero, tuple |-> <<>>]
    /\ returned = NotReturned
    /\ NoIteration /\ NoRoundTrip /\ NoTerms

\* R = presentation.evaluate(phi)
EvaluateQuery(q) ==
    /\ pending.fn = "none"
    /\ \E R \in {QueryResult(automata, q)} :
          /\ pending' = [fn |-> "evaluate", query |-> q, relation |-> R, tuple |-> <<>>]
          /\ returned' = [kind |-> "dfa", value |-> R]
    /\ UNCHANGED <<pvars, ivars, cvars, tvars>>

\* Is the tuple ns of numbers in R: does R accept its encoding
Contains(ns) ==
    /\ pending.fn = "evaluate"
    /\ pending' = [pending EXCEPT !.fn = "contains", !.tuple = ns]
    /\ returned' = [kind |-> "bool", value |-> Accepts(pending.relation, Encode(ns))]
    /\ UNCHANGED <<pvars, ivars, cvars, tvars>>

Tuples3 == {<<a, b, c>> : a, b, c \in 0..MaxNat}

\* The triples the examples name.
NamedTriples == {<<1, 1, 2>>, <<2, 3, 5>>, <<0, 0, 0>>, <<1, 1, 3>>, <<10, 2, 13>>}

Tuples2 == {<<a, b>> : a, b \in 0..MaxNat}

ANext ==
    \/ \E q \in ArithQueries : EvaluateQuery(q)
    \/ \E ns \in Tuples3 \cup NamedTriples : pending.query \in {"A", "term"} /\ Contains(ns)
    \/ \E ns \in Tuples2 : pending.query \in {"B"} /\ Contains(ns)

\* Queries on buechi_arithmetic() and membership in their results.
SpecArith == AInit /\ [][ANext]_vars

(***************************************************************************)
(* Properties of the relations of Buechi arithmetic                        *)
(***************************************************************************)
\* The numbers a word accepted by a relation stands for, as __iter__
\* decodes it: component c with the padding dropped.
DecodeWord(w, k) == [c \in 1..k |-> Decode(Component(w, c))]

PowerOfTwo(y) == \E k \in 0..y : 2 ^ k = y

\* C15: in buechi_arithmetic(), B holds (x, y) iff y is a power of 2 and y
\* divides x, for all x >= 0 and y >= 0.
C15_WeakDivisibility ==
    (pending.fn = "contains" /\ pending.query = "B") =>
        (returned.value <=>
            (PowerOfTwo(pending.tuple[2]) /\ pending.tuple[1] % pending.tuple[2] = 0))

(***************************************************************************)
(* utils.automata_tools.lsbf_automaton on numbers                          *)
(***************************************************************************)
\* Largest number encoded.
MaxEncoded == 60

\* lsbf_automaton(n)
lsbf_automaton_of(n) == lsbf_automaton(LsbfBits(n))

LInit ==
    /\ \E n \in 0..MaxEncoded : pending = [fn |-> "lsbf_automaton", n |-> n]
    /\ returned = NotReturned
    /\ NoPresentation /\ NoIteration /\ NoRoundTrip /\ NoTerms

LsbfAutomaton ==
    /\ returned = NotReturned
    /\ returned' = [kind |-> "dfa", value |-> lsbf_automaton_of(pending.n)]
    /\ UNCHANGED <<pending, pvars, ivars, cvars, tvars>>

\* Calls of lsbf_automaton.
SpecLsbf == LInit /\ [][LsbfAutomaton]_vars

\* The least-significant-bit-first binary encoding of n, the empty word for
\* 0, as a word of 1-tuples.
RECURSIVE BinaryLsbf(_)
BinaryLsbf(n) ==
    IF n = 0 THEN <<>> ELSE <<<<DigitChars[(n % 2) + 1]>>>> \o BinaryLsbf(n \div 2)

\* C16: lsbf_automaton(n) accepts exactly one word, the lsbf binary
\* encoding of n (the empty word for 0, '1' for 1, '01' for 2, '11' for
\* 3), and every input continuing after it leads to a non-accepting sink.
C16_LsbfAcceptsEncoding ==
    returned.kind = "dfa" =>
        /\ \A w \in WordsUpTo(returned.value.input_symbols, BitLength(pending.n) + 1) :
              Accepts(returned.value, w) <=> w = BinaryLsbf(pending.n)
        /\ \A a \in returned.value.input_symbols :
              Dead(returned.value,
                   returned.value.transitions[RunFrom(returned.value, returned.value.initial_state,
                                                      BinaryLsbf(pending.n))][a])

(***************************************************************************)
(* Applications of unknown relation names                                  *)
(***************************************************************************)
\* The predicate names applied anywhere in phi.
RECURSIVE Applied(_)
Applied(phi) ==
    CASE phi.op = "app" -> {phi.name}
      [] phi.op \in {"and", "or"} -> Applied(phi.sub[1]) \cup Applied(phi.sub[2])
      [] OTHER -> Applied(phi.sub[1])

\* phi applies a name that is not a key of env.
AppliesUnknown(env, phi) == Applied(phi) \ DOMAIN env # {}

\* The keys of the first i bindings.
Keys(kwargs, i) == {kwargs[j][1] : j \in 1..i}

\* C17: compiling, by evaluate, check or update, a formula that applies a
\* predicate name that is not a key of the environment it is compiled in
\* raises and produces no automaton, at whatever depth the application is.
C17_UnknownPredicateRaises ==
    /\ (last.op = "check" /\ AppliesUnknown(last.before, last.phi)) =>
           (last.raised /\ ~last.truth)
    /\ (/\ last.op = "evaluate"
        /\ \/ \E i \in 1..Len(last.kwargs) :
                 /\ last.kwargs[i][2].type = "str"
                 /\ AppliesUnknown(last.before, last.kwargs[i][2].phi)
           \/ Applied(last.phi) \ (DOMAIN last.before \cup Keys(last.kwargs, Len(last.kwargs))) # {}) =>
           (last.raised /\ last.result = RAISED)
    /\ last.op = "update" =>
           \A i \in 1..Len(last.kwargs) :
               (/\ last.kwargs[i][2].type = "str"
                /\ Applied(last.kwargs[i][2].phi)
                      \ (DOMAIN last.before \cup Keys(last.kwargs, i - 1)) # {}) =>
                   /\ last.raised
                   /\ last.kwargs[i][1] \notin DOMAIN last.before \cup Keys(last.kwargs, i - 1)
                          => last.kwargs[i][1] \notin DOMAIN automata

\* An update whose second formula applies the unknown name under a
\* quantifier, a conjunction and a negation has raised.
C17_Witness ==
    /\ last.op = "update"
    /\ Len(last.kwargs) = 2
    /\ last.kwargs[2][2].phi = Exists("y", And(Bxy, Not(App("Q", <<"y">>))))
    /\ last.raised
    /\ "R" \in DOMAIN automata
    /\ "S" \notin DOMAIN automata

(***************************************************************************)
(* arithmetic.DropRARelation.substitute                                    *)
(***************************************************************************)
\* Most entries of a substitution, most terms of a relation and most
\* dropped variables.
MaxSubst == 2
MaxArgs == 3
MaxDropped == 2

\* kwargs as the list of its (key, value) pairs in dict order.
KwKeys(kwargs) == {kwargs[i][1] : i \in 1..Len(kwargs)}
KwValues(kwargs) == {kwargs[i][2] : i \in 1..Len(kwargs)}
KwGet(kwargs, key) == kwargs[CHOOSE i \in 1..Len(kwargs) : kwargs[i][1] = key][2]

\* substitute of an elementary term inside a relation or a sum: a term whose
\* str is a key is replaced by to_term of the value (a str gives a
\* VariableETerm); a sum substitutes in its operands.
RECURSIVE ETerm_substituted(_, _)
ETerm_substituted(t, kwargs) ==
    CASE t.class = "VariableETerm" ->
           IF t.name \in KwKeys(kwargs) THEN VariableETerm(KwGet(kwargs, t.name)) ELSE t
      [] t.class = "AdditionETerm" ->
           SetAttr(SetAttr(SetAttr(t, "left", ETerm_substituted(t.left, kwargs)),
                           "right", ETerm_substituted(t.right, kwargs)),
                   "presentation", None)
      [] OTHER -> t

\* BaseRATerm.substitute(**kwargs)
BaseRATerm_substitute(self, kwargs) ==
    SetAttr(SetAttr(self, "terms",
                    [i \in 1..Len(self.terms) |-> ETerm_substituted(self.terms[i], kwargs)]),
            "presentation", None)

\* DropRARelation(relation, variables)
DropRARelation(relation, variables) ==
    SetAttr(SetAttr(Term_init(New("DropRARelation")), "relation", relation),
            "variables", variables)

\* DropRARelation.get_variables
DropRARelation_get_variables(self) ==
    SelectSeq(BaseRATerm_get_variables(self.relation), LAMBDA v : v \notin Range(self.variables))

\* get_unique_id(names, 1) on names
UniqueName(existing) ==
    Only({ IF r.kind = "str" THEN [kind |-> "str", value |-> NameStr(r.value)] ELSE r :
           r \in {get_unique_id([i \in 1..Len(existing) |-> Chars[existing[i]]], 1)} })

\* The renaming loop of substitute from the dropped variable i on.
RECURSIVE RenameDropped(_, _, _)
RenameDropped(self, kwargs, i) ==
    IF i > Len(self.variables) THEN self
    ELSE IF self.variables[i] \notin KwValues(kwargs) THEN RenameDropped(self, kwargs, i + 1)
    ELSE Only({ IF v_new.kind # "str" THEN v_new
                ELSE RenameDropped(
                         SetAttr(SetAttr(self, "variables", [self.variables EXCEPT ![i] = v_new.value]),
                                 "relation",
                                 BaseRATerm_substitute(self.relation,
                                                       << <<self.variables[i], v_new.value>> >>)),
                         kwargs, i + 1) :
                v_new \in {UniqueName(BaseRATerm_get_variables(self.relation))} })

\* DropRARelation.substitute(allow_collision, **kwargs): the term
\* afterwards, or the exception of get_unique_id
DropRARelation_substitute(self, allow_collision, kwargs) ==
    Only({ Only({ IF "kind" \in DOMAIN renamed THEN renamed
                  ELSE SetAttr(SetAttr(renamed, "relation",
                                       BaseRATerm_substitute(renamed.relation, kwrec)),
                               "presentation", None) :
                  renamed \in {IF allow_collision THEN self ELSE RenameDropped(self, kwargs, 1)} }) :
           kwrec \in {SelectSeq(kwargs, LAMBDA kv : kv[1] \notin Range(self.variables))} })

DropNames == {"x", "y", "z"}

\* Sequences without repetition of at most n elements of S.
Distinct(S, n) ==
    {s \in UNION {[1..k -> S] : k \in 0..n} : \A i, j \in 1..Len(s) : s[i] = s[j] => i = j}

\* Relations R(t1, ..., tn) of variables, one of them with a sum.
DropRelations ==
    { BaseRATerm("R", [i \in 1..Len(ns) |-> VariableETerm(ns[i])]) :
      ns \in UNION {[1..k -> DropNames] : k \in 1..MaxArgs} }
    \cup { BaseRATerm("R", <<AdditionETerm(VariableETerm("x"), VariableETerm("y")),
                             VariableETerm("z")>>) }

DropTerms ==
    { DropRARelation(r, vs) : r \in DropRelations, vs \in Distinct(DropNames, MaxDropped) \ {<<>>} }

\* Substitutions of names by names.
Substitutions ==
    UNION { { [i \in 1..Len(ks) |-> <<ks[i], vs[i]>>] :
              vs \in [1..Len(ks) -> DropNames \cup {"z0"}] } :
            ks \in Distinct(DropNames, MaxSubst) }

DInit ==
    /\ \E self \in DropTerms :
          pending = [fn |-> "substitute", self |-> self, allow_collision |-> FALSE, kwargs |-> <<>>]
    /\ returned = NotReturned
    /\ NoPresentation /\ NoIteration /\ NoRoundTrip /\ NoTerms

\* term.substitute(allow_collision, **kwargs)
Substitute(allow_collision, kwargs) ==
    /\ returned = NotReturned
    /\ pending' = [pending EXCEPT !.allow_collision = allow_collision, !.kwargs = kwargs]
    /\ \E r \in {DropRARelation_substitute(pending.self, allow_collision, kwargs)} :
          returned' = IF "kind" \in DOMAIN r THEN r ELSE [kind |-> "term", value |-> r]
    /\ UNCHANGED <<pvars, ivars, cvars, tvars>>

DNext == \E allow_collision \in BOOLEAN, kwargs \in Substitutions : Substitute(allow_collision, kwargs)

\* Substitutions into Drop terms.
SpecDrop == DInit /\ [][DNext]_vars

\* The image of the name v under the substitution.
Image(kwargs, v) == IF v \in KwKeys(kwargs) THEN KwGet(kwargs, v) ELSE v

\* C18: after substitute with allow_collision = false, the free variables
\* of a Drop term are exactly the images under the substitution of its free
\* variables before, and every dropped name is distinct from all of them.
C18_SubstituteAvoidsCapture ==
    (returned.kind = "term" /\ ~pending.allow_collision) =>
        LET images == {Image(pending.kwargs, v) :
                       v \in Range(DropRARelation_get_variables(pending.self))}
        IN /\ Range(DropRARelation_get_variables(returned.value)) = images
           /\ Range(returned.value.variables) \cap images = {}

(***************************************************************************)
(* Negation relative to the universe                                       *)
(***************************************************************************)
\* The last call compiled Not(psi), psi no negation.
BuiltNot ==
    /\ last.op = "build"
    /\ last.phi.op = "not"
    /\ last.phi.sub[1].op # "not"
    /\ ~last.raised

\* Every component of the tuple word w is a word of L(U).
ValidTuple(env, w, k) == \A c \in 1..k : Accepts(env["U"], Column(w, c))

\* The words over k-tuples of the symbols of U, up to MaxWordLen.
TupleWords(env, k) ==
    WordsUpTo(IF k = 0 THEN {} ELSE Tuples(BaseSymbols(env["U"]), k), MaxWordLen)

\* C19: for Not(psi) with k free variables, psi no negation, the compiled
\* automaton accepts a tuple of words of L(U) iff the automaton compiled for
\* psi does not accept it, and accepts no tuple with a component outside L(U).
C19_NotIsComplementInUniverse ==
    BuiltNot =>
        \E psi_dfa \in {build_automaton(last.before, last.phi.sub[1])},
           k \in {Len(get_free_elementary_vars(last.phi))} :
            \A w \in TupleWords(last.before, k) :
                Accepts(last.result, w) <=>
                    (ValidTuple(last.before, w, k) /\ ~Accepts(psi_dfa, w))

\* A compiled Not(psi) with two free variables accepts a tuple and rejects
\* two tuples that psi rejects too, one of them of words of L(U).
C19_Witness ==
    /\ BuiltNot
    /\ Len(get_free_elementary_vars(last.phi)) = 2
    /\ \E psi_dfa \in {build_automaton(last.before, last.phi.sub[1])} :
          /\ \E w \in TupleWords(last.before, 2) : Accepts(last.result, w)
          /\ \E w \in TupleWords(last.before, 2) :
                ValidTuple(last.before, w, 2) /\ Accepts(psi_dfa, w) /\ ~Accepts(last.result, w)
          /\ \E w \in TupleWords(last.before, 2) :
                ~ValidTuple(last.before, w, 2) /\ ~Accepts(psi_dfa, w) /\ ~Accepts(last.result, w)

(***************************************************************************)
(* utils.automata_tools.expand on position lists                           *)
(***************************************************************************)
\* Largest arity expanded to.
MaxExpand == 3

\* Automata expanded: of arity 1, 2 and 3.
ExpandDfas ==
    { universe, lsbf_automaton(<<"1", "1">>), weak_div, k_longer_automaton(1, 1, Sigma),
      addition, complement(addition) }

EInit ==
    /\ \E dfa \in ExpandDfas, n \in 1..MaxExpand :
          \E pos \in [1..Arity(dfa) -> 0..(n - 1)] :
              pending = [fn |-> "expand", dfa |-> dfa, n |-> n, pos |-> pos]
    /\ returned = NotReturned
    /\ NoPresentation /\ NoIteration /\ NoRoundTrip /\ NoTerms

\* expand(dfa, n, pos)
Expand ==
    /\ returned = NotReturned
    /\ returned' = [kind |-> "dfa", value |-> expand(pending.dfa, pending.n, pending.pos)]
    /\ UNCHANGED <<pending, pvars, ivars, cvars, tvars>>

\* Calls of expand.
SpecExpand == EInit /\ [][Expand]_vars

\* The word s with each symbol replaced by tuple(symbol[j] for j in pos).
Selected(s, pos) == [i \in 1..Len(s) |-> Select(s[i], pos)]

\* C20: expand(A, n, pos), pos a list of k indices below n in which
\* indices may repeat, accepts a word s over n-tuples iff A accepts the
\* word of the symbols tuple(symbol[j] for j in pos).
C20_ExpandSelectsPositions ==
    returned.kind = "dfa" =>
        \A s \in WordsUpTo(Tuples(BaseSymbols(pending.dfa), pending.n), MaxWordLen) :
            Accepts(returned.value, s) <=> Accepts(pending.dfa, Selected(s, pending.pos))

\* A ternary automaton expanded on one position repeated three times, as
\* for A(x,x,x), accepts a word.
C20_Witness ==
    /\ returned.kind = "dfa"
    /\ pending.n = 1
    /\ pending.pos = <<0, 0, 0>>
    /\ returned.value.input_symbols = Tuples(Sigma, 1)
    /\ \E s \in WordsUpTo(returned.value.input_symbols, MaxWordLen) :
          s # <<>> /\ Accepts(returned.value, s)

(***************************************************************************)
(* utils.automata_tools.projection                                         *)
(***************************************************************************)
JInit ==
    /\ \E dfa \in ExpandDfas, n \in 2..MaxExpand :
          \E pos \in [1..Arity(dfa) -> 0..(n - 1)], i \in 0..(n - 1) :
              pending = [fn |-> "projection", dfa |-> expand(dfa, n, pos), i |-> i]
    /\ returned = NotReturned
    /\ NoPresentation /\ NoIteration /\ NoRoundTrip /\ NoTerms

\* projection(dfa, i)
Projection ==
    /\ returned = NotReturned
    /\ returned' = [kind |-> "dfa", value |-> projection(pending.dfa, pending.i)]
    /\ UNCHANGED <<pending, pvars, ivars, cvars, tvars>>

\* Calls of projection.
SpecProject == JInit /\ [][Projection]_vars

\* The word w with the symbols of col inserted as component i.
WithColumn(w, i, col) == [j \in 1..Len(w) |-> InsertAt(w[j], i, col[j])]

\* C21: projection(A, i), A of arity k >= 2 and i < k, returns a DFA of
\* arity k - 1 that accepts a word iff the word is obtained from a word of
\* L(A) by deleting component i from every symbol.
C21_ProjectionDeletesColumn ==
    returned.kind = "dfa" =>
        /\ Arity(returned.value) = Arity(pending.dfa) - 1
        /\ \A w \in WordsUpTo(Tuples(BaseSymbols(pending.dfa), Arity(pending.dfa) - 1), MaxWordLen) :
              Accepts(returned.value, w) <=>
                  \E col \in [1..Len(w) -> BaseSymbols(pending.dfa)] :
                      Accepts(pending.dfa, WithColumn(w, pending.i, col))

\* A projection of a ternary automaton accepts a word that some, but not
\* every, completion of the deleted column makes the automaton accept.
C21_Witness ==
    /\ returned.kind = "dfa"
    /\ Arity(pending.dfa) = 3
    /\ \E w \in WordsUpTo(returned.value.input_symbols, 2) :
          /\ Accepts(returned.value, w)
          /\ \E col \in [1..Len(w) -> BaseSymbols(pending.dfa)] :
                ~Accepts(pending.dfa, WithColumn(w, pending.i, col))

(***************************************************************************)
(* arithmetic: relational-algebra terms as objects.  The heap is the list  *)
(* of the objects created, an object is referred to by its index; the      *)
(* variable terms of a BaseRATerm are immutable and stand by their names.  *)
(* presentation is <<>> for None and <<dfa>> for a cached automaton.       *)
(***************************************************************************)
\* Most objects created and most substitute calls made.
MaxObjects == 3
MaxCalls == 1

NoPres == <<>>

BaseObj(R, names) ==
    [class |-> "BaseRATerm", presentation |-> NoPres, R |-> R, terms |-> names]
ComplementObj(relation) ==
    [class |-> "ComplementRATerm", presentation |-> NoPres, relation |-> relation]
IntersectionObj(left, right) ==
    [class |-> "IntersectionRATerm", presentation |-> NoPres, template |-> "(({} and {}))",
     left |-> left, right |-> right]
DropObj(relation, variables) ==
    [class |-> "DropRARelation", presentation |-> NoPres, relation |-> relation,
     variables |-> variables]

\* get_variables as a set
RECURSIVE VarsOf(_, _)
VarsOf(heap, id) ==
    CASE heap[id].class = "BaseRATerm" -> Range(heap[id].terms)
      [] heap[id].class = "IntersectionRATerm" ->
           VarsOf(heap, heap[id].left) \cup VarsOf(heap, heap[id].right)
      [] heap[id].class = "ComplementRATerm" -> VarsOf(heap, heap[id].relation)
      [] heap[id].class = "DropRARelation" ->
           VarsOf(heap, heap[id].relation) \ Range(heap[id].variables)

\* term.get_variables(): the sorted list
get_variables(heap, id) == SelectSeq(VarNames, LAMBDA v : v \in VarsOf(heap, id))

\* self.presentation = value
SetPresentation(heap, id, value) == [heap EXCEPT ![id].presentation = value]

\* arithmetic = self.arithmetic; arithmetic.update(**updates): the update
\* made without deepcopy, in the class attribute itself
UpdatedShared(arithmetic, updates) ==
    [shared |-> UpdatedWith(arithmetic, updates), copy |-> UpdatedWith(arithmetic, updates)]

\* arithmetic = deepcopy(self.arithmetic); arithmetic.update(**updates):
\* the class attribute afterwards and the private copy
UpdatedCopy(arithmetic, updates) ==
    [shared |-> arithmetic, copy |-> UpdatedWith(arithmetic, updates)]

\* The outcome of a method on the heap: the heap and Term.arithmetic
\* afterwards, and the exception raised, "" for none.
Outcome(heap, arithmetic, raised) == [heap |-> heap, arithmetic |-> arithmetic, raised |-> raised]

\* exists v1 ... vn.(phi)
RECURSIVE ExistsAll(_, _)
ExistsAll(variables, phi) ==
    IF variables = <<>> THEN phi ELSE Exists(Head(variables), ExistsAll(Tail(variables), phi))

\* The presentation arithmetic.evaluate(phi) gives after arithmetic.update
\* of the private copy, stored in the term; an exception of update or
\* evaluate is raised on.
Presented(heap, id, arithmetic, updates, phi) ==
    Only({ Only({ IF \E R \in {updates[i][1] : i \in 1..Len(updates)} : R \notin DOMAIN env.copy
                  THEN Outcome(heap, env.shared, "Error")
                  ELSE IF r.raised THEN Outcome(heap, env.shared, "Error")
                  ELSE Outcome(SetPresentation(heap, id, <<r.result>>), env.shared, "") :
                  r \in {evaluate(env.copy, phi, <<>>)} }) :
           env \in {UpdatedCopy(arithmetic, updates)} })

RECURSIVE update_presentation(_, _, _, _)
\* Term.evaluate
Term_evaluate(heap, arithmetic, id) ==
    IF heap[id].presentation # NoPres THEN Outcome(heap, arithmetic, "")
    ELSE update_presentation(heap, arithmetic, id, FALSE)

\* update_presentation of each class; recursive_given tells that the
\* caller passes the keyword recursive, which ComplementRATerm and
\* DropRARelation do not accept.
update_presentation(heap, arithmetic, id, recursive_given) ==
    CASE heap[id].class = "BaseRATerm" ->
           Only({ Presented(heap, id, arithmetic, <<>>, fo.phi) :
                  fo \in {BaseRATerm_to_fo(arithmetic,
                              BaseRATerm(heap[id].R,
                                         [i \in 1..Len(heap[id].terms) |->
                                            VariableETerm(heap[id].terms[i])]))} })
      [] heap[id].class = "IntersectionRATerm" ->
           Only({ IF l.raised # "" THEN l
                  ELSE Only({ IF r.raised # "" THEN r
                              ELSE Only({ Presented(r.heap, id, r.arithmetic,
                                              << <<rels[1], r.heap[heap[id].left].presentation[1]>>,
                                                 <<rels[2], r.heap[heap[id].right].presentation[1]>> >>,
                                              And(App(rels[1], get_variables(r.heap, heap[id].left)),
                                                  App(rels[2], get_variables(r.heap, heap[id].right)))) :
                                          rels \in {UniqueNames(SeqOf(DOMAIN r.arithmetic), 2)} }) :
                              r \in {update_presentation(l.heap, l.arithmetic, heap[id].right, TRUE)} }) :
                  l \in {update_presentation(heap, arithmetic, heap[id].left, TRUE)} })
      [] heap[id].class = "ComplementRATerm" ->
           IF recursive_given THEN Outcome(heap, arithmetic, "TypeError")
           ELSE Only({ IF r.raised # "" THEN r
                       ELSE Only({ Presented(r.heap, id, r.arithmetic,
                                       << <<R0.value, r.heap[heap[id].relation].presentation[1]>> >>,
                                       Not(App(R0.value, get_variables(r.heap, heap[id].relation)))) :
                                   R0 \in {UniqueName(SeqOf(DOMAIN r.arithmetic))} }) :
                       r \in {Term_evaluate(heap, arithmetic, heap[id].relation)} })
      [] heap[id].class = "DropRARelation" ->
           IF recursive_given THEN Outcome(heap, arithmetic, "TypeError")
           ELSE Only({ IF r.raised # "" THEN r
                       ELSE Only({ Presented(r.heap, id, r.arithmetic,
                                       << <<R0.value, r.heap[heap[id].relation].presentation[1]>> >>,
                                       ExistsAll(heap[id].variables,
                                                 App(R0.value, get_variables(r.heap, heap[id].relation)))) :
                                   R0 \in {UniqueName(SeqOf(DOMAIN r.arithmetic))} }) :
                       r \in {Term_evaluate(heap, arithmetic, heap[id].relation)} })

RECURSIVE substitute(_, _, _, _)
RECURSIVE RenameDroppedIn(_, _, _, _)

\* The renaming loop of DropRARelation.substitute on the heap, from the
\* dropped variable i on; raised is "ValueError" when get_unique_id fails.
RenameDroppedIn(heap, id, kwargs, i) ==
    IF i > Len(heap[id].variables) THEN [heap |-> heap, raised |-> ""]
    ELSE IF heap[id].variables[i] \notin KwValues(kwargs) THEN RenameDroppedIn(heap, id, kwargs, i + 1)
    ELSE Only({ IF v_new.kind # "str" THEN [heap |-> heap, raised |-> v_new.kind]
                ELSE Only({ IF s.raised # "" THEN s
                            ELSE RenameDroppedIn(s.heap, id, kwargs, i + 1) :
                            s \in {substitute([heap EXCEPT ![id].variables[i] = v_new.value],
                                              heap[id].relation, FALSE,
                                              << <<heap[id].variables[i], v_new.value>> >>)} }) :
                v_new \in {UniqueName(get_variables(heap, heap[id].relation))} })

\* term.substitute(allow_collision, **kwargs) of each class
substitute(heap, id, allow_collision, kwargs) ==
    CASE heap[id].class = "BaseRATerm" ->
           [heap |-> [heap EXCEPT ![id].terms = [i \in 1..Len(heap[id].terms) |->
                                                    IF heap[id].terms[i] \in KwKeys(kwargs)
                                                    THEN KwGet(kwargs, heap[id].terms[i])
                                                    ELSE heap[id].terms[i]],
                                  ![id].presentation = NoPres],
            raised |-> ""]
      [] heap[id].class = "IntersectionRATerm" ->
           Only({ IF l.raised # "" THEN l
                  ELSE Only({ IF r.raised # "" THEN r
                              ELSE [heap |-> SetPresentation(r.heap, id, NoPres), raised |-> ""] :
                              r \in {substitute(l.heap, heap[id].right, allow_collision, kwargs)} }) :
                  l \in {substitute(heap, heap[id].left, allow_collision, kwargs)} })
      [] heap[id].class = "ComplementRATerm" ->
           Only({ IF r.raised # "" THEN r
                  ELSE [heap |-> SetPresentation(r.heap, id, NoPres), raised |-> ""] :
                  r \in {substitute(heap, heap[id].relation, allow_collision, kwargs)} })
      [] heap[id].class = "DropRARelation" ->
           Only({ Only({ IF renamed.raised # "" THEN renamed
                         ELSE Only({ IF r.raised # "" THEN r
                                     ELSE [heap |-> SetPresentation(r.heap, id, NoPres), raised |-> ""] :
                                     r \in {substitute(renamed.heap, heap[id].relation, FALSE, kwrec)} }) :
                         renamed \in {IF allow_collision THEN [heap |-> heap, raised |-> ""]
                                      ELSE RenameDroppedIn(heap, id, kwargs, 1)} }) :
                  kwrec \in {SelectSeq(kwargs, LAMBDA kv : kv[1] \notin Range(heap[id].variables))} })

\* The atomic relation constructed, by x.lt(y).
CacheAtoms == {BaseObj("Lt", <<"x", "y">>)}

\* The substitution applied: x and y change places.
CacheSubstitutions == { << <<"x", "y">>, <<"y", "x">> >> }

\* The record of the last call.
TermCalled(op, id, raised, calls) == [op |-> op, id |-> id, raised |-> raised, calls |-> calls]

HInit ==
    /\ automata = buechi_arithmetic
    /\ terms = <<>>
    /\ term_last = TermCalled("none", 0, "", 0)
    /\ enforce_consistency = TRUE
    /\ updates_done = 0
    /\ last = Idle(automata)
    /\ NoIteration /\ NoRoundTrip /\ NoCall

\* A constructor call: the object is appended to the heap.
Construct(obj) ==
    /\ Len(terms) < MaxObjects
    /\ terms' = Append(terms, obj)
    /\ term_last' = TermCalled("construct", Len(terms) + 1, "", term_last.calls)
    /\ UNCHANGED <<pvars, ivars, cvars, fvars>>

\* term.evaluate()
EvaluateTerm(id) ==
    /\ \E r \in {Term_evaluate(terms, automata, id)} :
          /\ terms' = r.heap
          /\ automata' = r.arithmetic
          /\ term_last' = TermCalled("evaluate", id, r.raised, term_last.calls)
    /\ UNCHANGED <<enforce_consistency, updates_done, last, ivars, cvars, fvars>>

\* term.substitute(**kwargs)
SubstituteTerm(id, kwargs) ==
    /\ term_last.calls < MaxCalls
    /\ \E r \in {substitute(terms, id, FALSE, kwargs)} :
          /\ terms' = r.heap
          /\ term_last' = TermCalled("substitute", id, r.raised, term_last.calls + 1)
    /\ UNCHANGED <<pvars, ivars, cvars, fvars>>

HNext ==
    \/ \E obj \in CacheAtoms : Construct(obj)
    \/ \E id \in 1..Len(terms) : Construct(ComplementObj(id))
    \/ \E l, r \in 1..Len(terms) : Construct(IntersectionObj(l, r))
    \/ \E id \in 1..Len(terms), v \in {"y"} : Construct(DropObj(id, <<v>>))
    \/ \E id \in 1..Len(terms) : EvaluateTerm(id)
    \/ \E id \in 1..Len(terms), kwargs \in CacheSubstitutions : SubstituteTerm(id, kwargs)

\* Terms constructed, evaluated and substituted in.
SpecCache == HInit /\ [][HNext]_vars

(***************************************************************************)
(* Properties of cached presentations                                      *)
(***************************************************************************)
\* The heap with no presentation cached.
Uncached(heap) == [id \in 1..Len(heap) |-> [heap[id] EXCEPT !.presentation = NoPres]]

\* C22: every term whose cached presentation is set holds an automaton of
\* the language that compiling the term's current tree produces; a
\* substitution in a subterm leaves no stale cache in a term containing it.
C22_CachedPresentationsCurrent ==
    \A id \in 1..Len(terms) :
        terms[id].presentation # NoPres =>
            \E r \in {Term_evaluate(Uncached(terms), automata, id)} :
                r.raised = "" => LangEq(terms[id].presentation[1], r.heap[id].presentation[1])

(***************************************************************************)
(* check and the existential closure                                       *)
(***************************************************************************)
\* exists x1 ... xn.(phi) over the free variables of phi
Closure(phi) == ExistsAll(get_free_elementary_vars(phi), phi)

\* C23: check(phi) returns true iff the automaton compiled for phi is
\* non-empty, and returns what check of the existential closure of phi
\* returns.
C23_CheckIsExistentialClosure ==
    last.op = "check" =>
        /\ ~last.raised => (last.truth <=> ~isempty(build_automaton(last.before, last.phi)))
        /\ \E closed \in {check(last.before, Closure(last.phi))} :
              closed.raised = last.raised /\ closed.truth = last.truth

\* check has returned true for a formula with two free variables, and
\* false for another.
C23_Witness ==
    /\ last.op = "check"
    /\ ~last.raised
    /\ Len(get_free_elementary_vars(last.phi)) = 2
    /\ \/ last.truth /\ last.phi = And(Bxy, App("R", <<"y">>))
       \/ ~last.truth /\ last.phi = And(Kxy, Not(Kxy))

(***************************************************************************)
(* Well-formed convolutions                                                *)
(***************************************************************************)
\* The k-fold padding symbol occurs in w only as a suffix.
PaddingIsSuffix(w, k) ==
    \A i, j \in 1..Len(w) : (i < j /\ w[i] = PadSym(k)) => w[j] = PadSym(k)

\* C24: every word accepted by a compiled automaton with k >= 1 free
\* variables is a well-formed convolution: each column is a word of the
\* padded universe and the k-fold padding symbol occurs only as a suffix;
\* the language is closed under appending and removing a trailing k-fold
\* padding symbol.
C24_CompiledWordsWellFormed ==
    (last.op = "build" /\ ~last.raised /\ last.result.input_symbols # {}) =>
        \E k \in {Arity(last.result)} :
            /\ \A w \in WordsUpTo(last.result.input_symbols, MaxWordLen) :
                  Accepts(last.result, w) => (ValidTuple(last.before, w, k) /\ PaddingIsSuffix(w, k))
            /\ \A w \in WordsUpTo(last.result.input_symbols, MaxWordLen - 1) :
                  Accepts(last.result, w) <=> Accepts(last.result, Append(w, PadSym(k)))

(***************************************************************************)
(* Connectives with a sentence on one side                                 *)
(***************************************************************************)
\* The last call compiled a conjunction or disjunction of which side s is
\* a sentence and the other side is not, both sides compiling by themselves.
BuiltWithSentence(s) ==
    /\ last.op = "build"
    /\ last.phi.op \in {"and", "or"}
    /\ free(last.phi.sub[s]) = {}
    /\ free(last.phi.sub[3 - s]) # {}
    /\ ~Raised(build_automaton(last.before, last.phi.sub[1]))
    /\ ~Raised(build_automaton(last.before, last.phi.sub[2]))

\* C25: compiling And(phi1, phi2) or Or(phi1, phi2) with a sentence on one
\* side succeeds; for And the result is the other side's relation if the
\* sentence is true and the empty relation if it is false.
C25_SentenceOperandCompiles ==
    \A s \in {1, 2} :
        BuiltWithSentence(s) =>
            /\ ~last.raised
            /\ last.phi.op = "and" =>
                  \E sentence \in {build_automaton(last.before, last.phi.sub[s])},
                     other \in {build_automaton(last.before, last.phi.sub[3 - s])} :
                      IF isempty(sentence) THEN isempty(last.result)
                      ELSE LangEq(last.result, other)

(***************************************************************************)
(* Quantifiers over a variable that does not occur                         *)
(***************************************************************************)
\* C26: compiling Exists x.psi with x not free in psi succeeds and gives an
\* automaton of the language of the automaton compiled for psi, for every
\* arity of psi, 0 included.
C26_VacuousExistsIsOperand ==
    (/\ last.op = "build"
     /\ last.phi.op = "exists"
     /\ last.phi.name \notin free(last.phi.sub[1])) =>
        \E psi_dfa \in {build_automaton(last.before, last.phi.sub[1])} :
            ~Raised(psi_dfa) => (~last.raised /\ LangEq(last.result, psi_dfa))

(***************************************************************************)
(* Evaluation of intersections                                             *)
(***************************************************************************)
\* The automaton cached in the term id, padded.
PaddedPresentation(heap, id) == pad(heap[id].presentation[1])

\* C27: evaluating an intersection term succeeds for operands of every
\* class and yields the relation, over the sorted union of the operands'
\* variables, of the tuples that satisfy both operands.
C27_IntersectionEvaluates ==
    (term_last.op = "evaluate" /\ terms[term_last.id].class = "IntersectionRATerm") =>
        /\ term_last.raised = ""
        /\ \E l \in {terms[term_last.id].left}, r \in {terms[term_last.id].right},
              variables \in {get_variables(terms, term_last.id)} :
              (terms[l].presentation # NoPres /\ terms[r].presentation # NoPres) =>
              \E both \in {PaddedPresentation(terms, term_last.id)},
                 left \in {PaddedPresentation(terms, l)},
                 right \in {PaddedPresentation(terms, r)} :
                  \A w \in WordsUpTo(both.input_symbols, MaxWordLen) :
                      Accepts(both, w) <=>
                          /\ Accepts(left, Selected(w, Positions(variables, get_variables(terms, l))))
                          /\ Accepts(right, Selected(w, Positions(variables, get_variables(terms, r))))


(***************************************************************************)
(* arithmetic: substitution in terms that share objects.  AdditionETerm    *)
(* and BaseRATerm objects live on the heap terms and are referred to by    *)
(* their index; VariableETerm and ConstantETerm objects, which substitute  *)
(* returns unchanged, are held by value.                                   *)
(***************************************************************************)
\* Most objects on the heap and the largest constant multiplied by.
MaxShared == 3
MaxDoubling == 5

\* The reference to the object id of the heap.
Ref(id) == [class |-> "ref", id |-> id]

\* AdditionETerm(left, right) as a heap object
AdditionObj(left, right) ==
    [class |-> "AdditionETerm", left |-> left, right |-> right, presentation |-> None]

\* BaseRATerm(relation_symbol, terms) as a heap object
RelationObj(relation_symbol, ts) ==
    [class |-> "BaseRATerm", R |-> relation_symbol, terms |-> ts, presentation |-> None]

\* The names t.get_variables() collects before list(set(...)) and sort().
RECURSIVE VariablesIn(_, _)
VariablesIn(heap, t) ==
    CASE t.class = "VariableETerm" -> {t.name}
      [] t.class = "ConstantETerm" -> {}
      [] t.class = "ref" /\ heap[t.id].class = "AdditionETerm" ->
           VariablesIn(heap, heap[t.id].left) \cup VariablesIn(heap, heap[t.id].right)
      [] t.class = "ref" /\ heap[t.id].class = "BaseRATerm" ->
           UNION {VariablesIn(heap, heap[t.id].terms[i]) : i \in 1..Len(heap[t.id].terms)}

\* AdditionETerm.get_variables and BaseRATerm.get_variables of the object id
Shared_get_variables(heap, id) ==
    SelectSeq(VarNames, LAMBDA v : v \in VariablesIn(heap, Ref(id)))

\* str(t) in kwargs: only a VariableETerm has a __str__, its name.
StrInKwargs(t, kwargs) == t.class = "VariableETerm" /\ t.name \in KwKeys(kwargs)

\* t.substitute(**kwargs) for the operand t, the heap afterwards.
\* VariableETerm.substitute and ConstantETerm.substitute return self.
RECURSIVE SubstituteIn(_, _, _)
RECURSIVE SubstituteTerms(_, _, _, _)
SubstituteIn(heap, t, kwargs) ==
    IF t.class # "ref" THEN heap
    ELSE IF heap[t.id].class = "AdditionETerm"
    THEN Only({ Only({ [h2 EXCEPT ![t.id].presentation = None] :
                       h2 \in {IF StrInKwargs(h1[t.id].right, kwargs)
                               THEN [h1 EXCEPT ![t.id].right = VariableETerm(KwGet(kwargs, h1[t.id].right.name))]
                               ELSE SubstituteIn(h1, h1[t.id].right, kwargs)} }) :
                h1 \in {IF StrInKwargs(heap[t.id].left, kwargs)
                        THEN [heap EXCEPT ![t.id].left = VariableETerm(KwGet(kwargs, heap[t.id].left.name))]
                        ELSE SubstituteIn(heap, heap[t.id].left, kwargs)} })
    ELSE Only({ [h EXCEPT ![t.id].presentation = None] :
                h \in {SubstituteTerms(heap, t.id, 1, kwargs)} })

\* The for loop of BaseRATerm.substitute from the term i on.
SubstituteTerms(heap, id, i, kwargs) ==
    IF i > Len(heap[id].terms) THEN heap
    ELSE SubstituteTerms(IF StrInKwargs(heap[id].terms[i], kwargs)
                         THEN [heap EXCEPT ![id].terms[i] = VariableETerm(KwGet(kwargs, heap[id].terms[i].name))]
                         ELSE SubstituteIn(heap, heap[id].terms[i], kwargs),
                         id, i + 1, kwargs)

\* The for loop of __mul__ with rounds turns left, the sums being allocated
\* on the heap: power_multiples[-1] + power_multiples[-1] is one object
\* whose two operands are the same object.
RECURSIVE MulLoopOn(_, _, _, _, _, _)
MulLoopOn(heap, self, rounds, power_multiples, term, other) ==
    IF rounds = 0 THEN [heap |-> heap, term |-> term]
    ELSE LET h1 == IF power_multiples = <<>> THEN heap
                   ELSE Append(heap, AdditionObj(power_multiples[Len(power_multiples)],
                                                 power_multiples[Len(power_multiples)]))
             pm == IF power_multiples = <<>> THEN <<self>>
                   ELSE Append(power_multiples, Ref(Len(h1)))
         IN  IF other % 2 = 1
             THEN IF term = <<>>
                  THEN MulLoopOn(h1, self, rounds - 1, pm, <<pm[Len(pm)]>>, (other - 1) \div 2)
                  ELSE MulLoopOn(Append(h1, AdditionObj(term[1], pm[Len(pm)])), self, rounds - 1, pm,
                                 <<Ref(Len(h1) + 1)>>, (other - 1) \div 2)
             ELSE MulLoopOn(h1, self, rounds - 1, pm, term, other \div 2)

\* self * other for an int other >= 1: the heap afterwards and the term
ElementaryTerm_mul_on(heap, self, other) ==
    Only({ [heap |-> r.heap, term |-> r.term[1]] :
           r \in {MulLoopOn(heap, self, FloorLog2Plus1(other), <<>>, <<>>, other)} })

\* The operands of a sum or relation: the variables x and y and the sums
\* on the heap.
SharedOperands(heap) ==
    {VariableETerm("x"), VariableETerm("y")}
    \cup {Ref(id) : id \in {j \in 1..Len(heap) : heap[j].class = "AdditionETerm"}}

\* The renamings applied: of x, of y, and of both, the chain x to y with
\* y to z and the exchange of x and y among them.
SharedSubstitutions ==
    UNION { { [i \in 1..Len(ks) |-> <<ks[i], vs[i]>>] : vs \in [1..Len(ks) -> {"x", "y", "z"}] } :
            ks \in Distinct({"x", "y"}, MaxSubst) \ {<<>>} }

\* The record of the last call: before is get_variables() before it.
SharedCalled(op, id, before, kwargs, calls) ==
    [op |-> op, id |-> id, before |-> before, kwargs |-> kwargs, calls |-> calls]

SInit ==
    /\ terms = <<>>
    /\ term_last = SharedCalled("none", 0, <<>>, <<>>, 0)
    /\ NoPresentation /\ NoIteration /\ NoRoundTrip /\ NoCall

\* left + right
AddTerms(left, right) ==
    /\ Len(terms) < MaxShared
    /\ terms' = Append(terms, AdditionObj(left, right))
    /\ term_last' = SharedCalled("__add__", Len(terms) + 1, <<>>, <<>>, term_last.calls)
    /\ UNCHANGED <<pvars, ivars, cvars, fvars>>

\* self * other
MulTerm(self, other) ==
    /\ \E r \in {ElementaryTerm_mul_on(terms, self, other)} :
          /\ Len(r.heap) <= MaxShared
          /\ terms' = r.heap
          /\ term_last' = SharedCalled("__mul__", IF r.term.class = "ref" THEN r.term.id ELSE 0,
                                       <<>>, <<>>, term_last.calls)
    /\ UNCHANGED <<pvars, ivars, cvars, fvars>>

\* left.eq(right)
EqTerms(left, right) ==
    /\ Len(terms) < MaxShared
    /\ terms' = Append(terms, RelationObj("Eq", <<left, right>>))
    /\ term_last' = SharedCalled("eq", Len(terms) + 1, <<>>, <<>>, term_last.calls)
    /\ UNCHANGED <<pvars, ivars, cvars, fvars>>

\* term.substitute(**kwargs) for the object id
SubstituteShared(id, kwargs) ==
    /\ term_last.calls < MaxCalls
    /\ terms' = SubstituteIn(terms, Ref(id), kwargs)
    /\ term_last' = SharedCalled("substitute", id, Shared_get_variables(terms, id), kwargs,
                                 term_last.calls + 1)
    /\ UNCHANGED <<pvars, ivars, cvars, fvars>>

SNext ==
    \/ \E left, right \in SharedOperands(terms) : AddTerms(left, right)
    \/ \E self \in SharedOperands(terms), other \in 1..MaxDoubling : MulTerm(self, other)
    \/ \E left, right \in SharedOperands(terms) : EqTerms(left, right)
    \/ \E id \in 1..Len(terms), kwargs \in SharedSubstitutions : SubstituteShared(id, kwargs)

\* Constructions of sums, multiples and equations and substitutions in them.
SpecShare == SInit /\ [][SNext]_vars

\* C28: after term.substitute(**s) the variables of the term are the images
\* under s of the variables it had before, each occurrence being renamed
\* once: also when a sum object is both operands of another sum, as in the
\* terms of a multiplication by a constant from 4 on, and when a target of
\* s is itself a key of s.
C28_SubstituteRenamesOnce ==
    term_last.op = "substitute" =>
        Range(Shared_get_variables(terms, term_last.id))
            = {Image(term_last.kwargs, v) : v \in Range(term_last.before)}

(***************************************************************************)
(* Termination of the enumeration                                          *)
(***************************************************************************)
\* The states on a path from the initial state to a final state.
Useful(dfa) == Reachable(dfa) \cap nonempty_states(dfa, FALSE)

\* The useful states from which n transitions lead through useful states
\* into S.
RECURSIVE WalksInto(_, _, _)
WalksInto(dfa, S, n) ==
    IF n = 0 THEN S
    ELSE WalksInto(dfa, {q \in Useful(dfa) : \E a \in dfa.input_symbols : dfa.transitions[q][a] \in S},
                   n - 1)

\* L(dfa) is finite: no path through useful states is as long as their
\* number, so none of them lies on a cycle.
FiniteLanguage(dfa) == WalksInto(dfa, Useful(dfa), Cardinality(Useful(dfa))) = {}

\* C29: on an unpadded DFA with a finite language the enumeration ends.  No
\* queued word is as long as the number of states the search may visit (a
\* longer one has passed a state twice, and the search then follows that
\* cycle for ever); once the queue is empty every accepted tuple has been
\* yielded (reversed when backward); for the empty language nothing is
\* yielded.
C29_FiniteEnumerationEnds ==
    (Unpadded(iter.dfa) /\ FiniteLanguage(iter.dfa)) =>
        /\ \A e \in BagToSet(queue) : MaxCompLen(e[1]) < Cardinality(iter.nonempty)
        /\ queue = EmptyBag =>
              Range(yielded) = IF iter.backward
                               THEN {ReverseTuple(t) : t \in AcceptedTuples(iter.dfa, MaxIterLen)}
                               ELSE AcceptedTuples(iter.dfa, MaxIterLen)
        /\ isempty(iter.dfa) => yielded = <<>>

(***************************************************************************)
(* The class attribute Term.arithmetic                                     *)
(***************************************************************************)
\* C30: whatever terms are constructed, substituted in and evaluated,
\* Term.arithmetic keeps the relation symbols and automata it was created
\* with, and the names an evaluation takes for its auxiliary relations are
\* none of its relation symbols.
C30_SharedArithmeticUnchanged ==
    [][/\ automata' = automata
       /\ Range(UniqueNames(SeqOf(DOMAIN automata'), 2)) \cap DOMAIN automata' = {}]_vars

\* An intersection has been evaluated, after a substitution, with auxiliary
\* relations for its two operands.
C30_Witness ==
    /\ term_last.op = "evaluate"
    /\ term_last.raised = ""
    /\ term_last.calls >= 1
    /\ terms[term_last.id].class = "IntersectionRATerm"
    /\ terms[term_last.id].presentation # NoPres
====
